---------------------------- MODULE Spec2Model ----------------------------
(***************************************************************************)
(* Model of the prompt-extraction code (src/image_utils.py), the           *)
(* classification worker (src/main.py) and the settings store              *)
(* (src/settings_manager.py) of Prompt-Classifier.                         *)
(*                                                                         *)
(* Strings are sequences of Unicode code points, byte strings are          *)
(* sequences of numbers 0..255 and the '0'/'1' character buffers of the    *)
(* stealth reader are sequences of the numbers 0 and 1.                    *)
(***************************************************************************)
EXTENDS Integers, Sequences, FiniteSets, TLC

VARIABLES
    input,           \* how the image under scan was produced (never changes)
    image,           \* the PIL image: mode, size, pixels
    st,              \* the locals of read_info_from_image_stealth
    pc,              \* position in read_info_from_image_stealth
    stealth_result,  \* its return value
    source,          \* how the image read_info_from_image opens was produced
    opened,           \* that image: format, info, EXIF block, pixels
    attempt,         \* position in read_info_from_image
    nai_dict,        \* its local nai_dict
    prompt_out,      \* its return value
    given,           \* the text or mapping a dialect parser is run on
    exifdict,        \* the mapping made of it (ed1, nai_exif)
    naidict,         \* what _get_naidict_from_exifdict returns for it
    comfyui_prompt,  \* what _extract_comfyui_prompt returns for it
    stage,           \* position in the dialect pipeline
    worker,          \* the fields of the ImageClassifierWorker
    job,             \* the locals of its run, and where its thread is
    disk,            \* the file system: the folders and the file at each path
    disk0,           \* the file system the worker was constructed on
    emitted,         \* the completed and safe_mode_dialog_required signals emitted
    oplog,           \* the results handled and what was done for each
    manager,         \* the fields of the SettingsManager
    heap,            \* the lists its dicts refer to
    store,           \* the settings file and the preset file
    returned         \* what the last call returned, and its value at that time

vars == <<input, image, st, pc, stealth_result, source, opened, attempt, nai_dict, prompt_out,
          given, exifdict, naidict, comfyui_prompt, stage,
          worker, job, disk, disk0, emitted, oplog,
          manager, heap, store, returned>>

----------------------------------------------------------------------------
(* Bounds of the model *)

\* longest plaintext payload, in characters
MaxTextLen == 2
\* height of every image (pixels per column)
ImgHeight == 7
\* largest declared payload length, in bits, of the images whose length
\* prefix is chosen freely
MaxDeclared == 10
\* most metadata sources (info fields, EXIF block, pixel data) of an image
\* the orchestrator is run on
MaxSources == 2
\* most lines of a parameter block
MaxLines == 3
\* most nodes of a node graph
MaxNodes == 2

----------------------------------------------------------------------------
(* Values *)

\* Optional[str]: None, or a string
NoneResult == [some |-> FALSE, text |-> <<>>]
Some(t) == [some |-> TRUE, text |-> t]

RECURSIVE Pow2(_)
Pow2(n) == IF n = 0 THEN 1 ELSE 2 * Pow2(n - 1)

Max(a, b) == IF a >= b THEN a ELSE b

\* the four signatures, as code points
stealth_pnginfo == <<115,116,101,97,108,116,104,95,112,110,103,105,110,102,111>>
stealth_pngcomp == <<115,116,101,97,108,116,104,95,112,110,103,99,111,109,112>>
stealth_rgbinfo == <<115,116,101,97,108,116,104,95,114,103,98,105,110,102,111>>
stealth_rgbcomp == <<115,116,101,97,108,116,104,95,114,103,98,99,111,109,112>>

\* len('stealth_pnginfo') * 8
SigBits == Len(stealth_pnginfo) * 8

----------------------------------------------------------------------------
(* Bit strings, bytes, UTF-8 *)

\* int(bits, 2) of a non-empty '0'/'1' string
RECURSIVE IntOfBits(_)
IntOfBits(bits) ==
    IF Len(bits) = 0 THEN 0
    ELSE 2 * IntOfBits(SubSeq(bits, 1, Len(bits) - 1)) + bits[Len(bits)]

\* bytearray(int(s[i:i + 8], 2) for i in range(0, len(s), 8)): the last
\* group may hold fewer than 8 bits
BytesOfBits(bits) ==
    [i \in 1..((Len(bits) + 7) \div 8) |->
        IntOfBits(SubSeq(bits, 8 * i - 7, IF 8 * i <= Len(bits) THEN 8 * i ELSE Len(bits)))]

\* number of continuation bytes a UTF-8 lead byte asks for, -1: invalid lead
Utf8Need(b) ==
    IF b < 128 THEN 0
    ELSE IF b >= 194 /\ b <= 223 THEN 1
    ELSE IF b >= 224 /\ b <= 239 THEN 2
    ELSE IF b >= 240 /\ b <= 244 THEN 3
    ELSE -1

\* whether c is a valid j-th continuation byte after lead byte b
Utf8Cont(b, j, c) ==
    IF j = 1 /\ b = 224 THEN c >= 160 /\ c <= 191
    ELSE IF j = 1 /\ b = 237 THEN c >= 128 /\ c <= 159
    ELSE IF j = 1 /\ b = 240 THEN c >= 144 /\ c <= 191
    ELSE IF j = 1 /\ b = 244 THEN c >= 128 /\ c <= 143
    ELSE c >= 128 /\ c <= 191

\* bytes.decode('utf-8'): text is the result with errors='ignore', ok tells
\* whether the strict decoder accepts the bytes
RECURSIVE Utf8DecodeFrom(_, _)
Utf8DecodeFrom(bytes, i) ==
    IF i > Len(bytes) THEN [ok |-> TRUE, text |-> <<>>]
    ELSE
      LET b == bytes[i]
          n == Utf8Need(b)
          good == {j \in 0..Max(n, 0) :
                     \A k \in 1..j : i + k <= Len(bytes) /\ Utf8Cont(b, k, bytes[i + k])}
          got == CHOOSE j \in good : \A k \in good : k <= j
          cp == IF n = 0 THEN b
                ELSE IF n = 1 THEN (b - 192) * 64 + (bytes[i + 1] - 128)
                ELSE IF n = 2 THEN (b - 224) * 4096 + (bytes[i + 1] - 128) * 64
                                   + (bytes[i + 2] - 128)
                ELSE (b - 240) * 262144 + (bytes[i + 1] - 128) * 4096
                     + (bytes[i + 2] - 128) * 64 + (bytes[i + 3] - 128)
      IN IF n >= 0 /\ got = n
         THEN LET rest == Utf8DecodeFrom(bytes, i + n + 1)
              IN [ok |-> rest.ok, text |-> <<cp>> \o rest.text]
         ELSE [ok |-> FALSE, text |-> Utf8DecodeFrom(bytes, i + got + 1).text]

Utf8Decode(bytes) == Utf8DecodeFrom(bytes, 1)

\* model of gzip.decompress: a member is the two magic bytes, the length of
\* the data, the data and a checksum; members may follow each other, zero
\* bytes between and after them are skipped, anything else is an error
GzipMagic == <<31, 139>>

RECURSIVE ByteSum(_)
ByteSum(bytes) == IF Len(bytes) = 0 THEN 0 ELSE bytes[1] + ByteSum(Tail(bytes))

RECURSIVE StripZeros(_)
StripZeros(bytes) ==
    IF Len(bytes) > 0 /\ bytes[1] = 0 THEN StripZeros(Tail(bytes)) ELSE bytes

RECURSIVE GzipDecompress(_)
GzipDecompress(bytes) ==
    IF Len(bytes) = 0 THEN [ok |-> TRUE, data |-> <<>>]
    ELSE IF Len(bytes) < 3 \/ SubSeq(bytes, 1, 2) # GzipMagic
         THEN [ok |-> FALSE, data |-> <<>>]
    ELSE
      LET n == bytes[3]
      IN IF Len(bytes) < n + 4 THEN [ok |-> FALSE, data |-> <<>>]
         ELSE LET data == SubSeq(bytes, 4, n + 3)
              IN IF bytes[n + 4] # ByteSum(data) % 256
                 THEN [ok |-> FALSE, data |-> <<>>]
                 ELSE LET rest == GzipDecompress(
                                    StripZeros(SubSeq(bytes, n + 5, Len(bytes))))
                      IN [ok |-> rest.ok, data |-> data \o rest.data]

----------------------------------------------------------------------------
(* read_info_from_image_stealth and its helpers *)

_decode_bytes(binary_str) == Utf8Decode(BytesOfBits(binary_str)).text

_decode_binary_data(binary_data, compressed) ==
    LET byte_data == BytesOfBits(binary_data)
    IN IF compressed
       THEN LET z == GzipDecompress(byte_data)
                u == Utf8Decode(z.data)
            IN IF z.ok /\ u.ok THEN Some(u.text) ELSE NoneResult
       ELSE Some(Utf8Decode(byte_data).text)

_check_signature(buffer_a, buffer_rgb, index_a, index_rgb, has_alpha) ==
    IF has_alpha /\ index_a = SigBits THEN TRUE
    ELSE IF index_rgb = SigBits THEN TRUE
    ELSE FALSE

\* mutant: only the common prefix 'stealth_' of the signature is compared
_process_signature_prefix_only(s, has_alpha) ==
    LET decoded_sig == IF has_alpha THEN _decode_bytes(s.buffer_a)
                       ELSE _decode_bytes(s.buffer_rgb)
        known == Len(decoded_sig) = 15
                 /\ SubSeq(decoded_sig, 1, 8) = SubSeq(stealth_pnginfo, 1, 8)
        comp == known /\ SubSeq(decoded_sig, 12, 15) = SubSeq(stealth_pngcomp, 12, 15)
    IN IF known
       THEN [s EXCEPT !.sig_confirmed = TRUE, !.confirming_signature = FALSE,
                      !.reading_param_len = TRUE,
                      !.mode = IF has_alpha THEN "alpha" ELSE "rgb",
                      !.compressed = comp,
                      !.buffer_a = IF has_alpha THEN <<>> ELSE @,
                      !.index_a = IF has_alpha THEN 0 ELSE @,
                      !.buffer_rgb = IF has_alpha THEN @ ELSE <<>>,
                      !.index_rgb = IF has_alpha THEN @ ELSE 0]
       ELSE [s EXCEPT !.sig_confirmed = FALSE, !.confirming_signature = FALSE,
                      !.reading_param_len = FALSE, !.mode = "None",
                      !.compressed = FALSE]

\* mutant: the RGB branch tests the alpha signature for the compressed flag
_process_signature_wrong_comp(s, has_alpha) ==
    LET decoded_sig == IF has_alpha THEN _decode_bytes(s.buffer_a)
                       ELSE _decode_bytes(s.buffer_rgb)
    IN IF has_alpha /\ decoded_sig \in {stealth_pnginfo, stealth_pngcomp}
       THEN [s EXCEPT !.sig_confirmed = TRUE, !.confirming_signature = FALSE,
                      !.reading_param_len = TRUE, !.mode = "alpha",
                      !.compressed = (decoded_sig = stealth_pngcomp),
                      !.buffer_a = <<>>, !.index_a = 0]
       ELSE IF ~has_alpha /\ decoded_sig \in {stealth_rgbinfo, stealth_rgbcomp}
       THEN [s EXCEPT !.sig_confirmed = TRUE, !.confirming_signature = FALSE,
                      !.reading_param_len = TRUE, !.mode = "rgb",
                      !.compressed = (decoded_sig = stealth_pngcomp),
                      !.buffer_rgb = <<>>, !.index_rgb = 0]
       ELSE [s EXCEPT !.sig_confirmed = FALSE, !.confirming_signature = FALSE,
                      !.reading_param_len = FALSE, !.mode = "None",
                      !.compressed = FALSE]

_process_signature(s, has_alpha) ==
    LET decoded_sig == IF has_alpha THEN _decode_bytes(s.buffer_a)
                       ELSE _decode_bytes(s.buffer_rgb)
    IN IF has_alpha /\ decoded_sig \in {stealth_pnginfo, stealth_pngcomp}
       THEN [s EXCEPT !.sig_confirmed = TRUE, !.confirming_signature = FALSE,
                      !.reading_param_len = TRUE, !.mode = "alpha",
                      !.compressed = (decoded_sig = stealth_pngcomp),
                      !.buffer_a = <<>>, !.index_a = 0]
       ELSE IF ~has_alpha /\ decoded_sig \in {stealth_rgbinfo, stealth_rgbcomp}
       THEN [s EXCEPT !.sig_confirmed = TRUE, !.confirming_signature = FALSE,
                      !.reading_param_len = TRUE, !.mode = "rgb",
                      !.compressed = (decoded_sig = stealth_rgbcomp),
                      !.buffer_rgb = <<>>, !.index_rgb = 0]
       ELSE [s EXCEPT !.sig_confirmed = FALSE, !.confirming_signature = FALSE,
                      !.reading_param_len = FALSE, !.mode = "None",
                      !.compressed = FALSE]

_is_param_len_ready(mode, index_a, index_rgb) ==
    (mode = "alpha" /\ index_a = 32) \/ (mode = "rgb" /\ index_rgb = 33)

\* mutant: the first of the 33 bits is set aside instead of the last
_process_param_len_first_bit(s) ==
    IF s.mode = "alpha"
    THEN [s EXCEPT !.reading_param_len = FALSE, !.reading_param = TRUE,
                   !.param_len = IntOfBits(s.buffer_a),
                   !.buffer_a = <<>>, !.index_a = 0]
    ELSE LET pop == s.buffer_rgb[1]
             rest == SubSeq(s.buffer_rgb, 2, Len(s.buffer_rgb))
         IN [s EXCEPT !.reading_param_len = FALSE, !.reading_param = TRUE,
                      !.param_len = IntOfBits(rest),
                      !.buffer_rgb = <<pop>>, !.index_rgb = 1]

_process_param_len(s) ==
    IF s.mode = "alpha"
    THEN [s EXCEPT !.reading_param_len = FALSE, !.reading_param = TRUE,
                   !.param_len = IntOfBits(s.buffer_a),
                   !.buffer_a = <<>>, !.index_a = 0]
    ELSE LET pop == s.buffer_rgb[Len(s.buffer_rgb)]
             rest == SubSeq(s.buffer_rgb, 1, Len(s.buffer_rgb) - 1)
         IN [s EXCEPT !.reading_param_len = FALSE, !.reading_param = TRUE,
                      !.param_len = IntOfBits(rest),
                      !.buffer_rgb = <<pop>>, !.index_rgb = 1]

_is_param_ready(mode, index_a, index_rgb, param_len) ==
    (mode = "alpha" /\ index_a = param_len) \/ (mode = "rgb" /\ index_rgb >= param_len)

\* the locals before the loop
ScanInit ==
    [x |-> 0, y |-> 0, nread |-> 0,
     mode |-> "None", compressed |-> FALSE, binary_data |-> <<>>,
     buffer_a |-> <<>>, buffer_rgb |-> <<>>, index_a |-> 0, index_rgb |-> 0,
     sig_confirmed |-> FALSE, confirming_signature |-> TRUE,
     reading_param_len |-> FALSE, reading_param |-> FALSE,
     read_end |-> FALSE, param_len |-> 0]

\* has_alpha = image.mode == 'RGBA'
ImageHasAlpha(img) == img.mode = "RGBA"

\* the first statements of the loop body: the pixel's low bits are appended
\* to the buffers (nread counts the pixels read)
ReadPixel(s, img) ==
    LET p == img.pixels[<<s.x, s.y>>]
    IN [s EXCEPT !.buffer_a = IF ImageHasAlpha(img) THEN @ \o <<p[4] % 2>> ELSE @,
                 !.index_a = IF ImageHasAlpha(img) THEN @ + 1 ELSE @,
                 !.buffer_rgb = @ \o <<p[1] % 2, p[2] % 2, p[3] % 2>>,
                 !.index_rgb = @ + 3,
                 !.nread = @ + 1]

\* mutant: the loops nested the other way round (row by row)
NextPixel_row_major(s, img) ==
    IF s.x + 1 < img.width THEN [s EXCEPT !.x = @ + 1]
    ELSE [s EXCEPT !.x = IF s.y + 1 < img.height THEN 0 ELSE img.width,
                   !.y = IF s.y + 1 < img.height THEN @ + 1 ELSE 0]

\* for x in range(width): for y in range(height): the next pixel
NextPixel(s, img) ==
    IF s.y + 1 < img.height THEN [s EXCEPT !.y = @ + 1]
    ELSE [s EXCEPT !.x = @ + 1, !.y = 0]

LoopDone(s, img) == s.read_end \/ s.x >= img.width

\* the if/elif chain of the loop body, after the pixel was read
HandleState(s, img) ==
    IF s.confirming_signature
    THEN IF _check_signature(s.buffer_a, s.buffer_rgb, s.index_a, s.index_rgb,
                             ImageHasAlpha(img))
         THEN _process_signature(s, ImageHasAlpha(img))
         ELSE s
    ELSE IF s.reading_param_len
    THEN IF _is_param_len_ready(s.mode, s.index_a, s.index_rgb)
         THEN _process_param_len(s)
         ELSE s
    ELSE IF s.reading_param
    THEN IF _is_param_ready(s.mode, s.index_a, s.index_rgb, s.param_len)
         THEN [s EXCEPT !.binary_data = IF s.mode = "alpha" THEN s.buffer_a
                                        ELSE s.buffer_rgb,
                        !.read_end = TRUE]
         ELSE s
    ELSE [s EXCEPT !.read_end = TRUE]

\* one iteration of the inner loop; a break leaves x and y where they are
LoopBody(s, img) ==
    LET h == HandleState(ReadPixel(s, img), img)
    IN IF h.read_end THEN h ELSE NextPixel(h, img)

\* the statements after the loop
StealthReturn(s) ==
    IF s.sig_confirmed /\ s.binary_data # <<>>
    THEN _decode_binary_data(s.binary_data, s.compressed)
    ELSE NoneResult

\* read_info_from_image_stealth as a function of the image: n more
\* iterations of the loop, or fewer if it ends before (the iterations are
\* split in halves to keep the evaluation shallow)
RECURSIVE ScanFrom(_, _, _)
ScanFrom(s, img, n) ==
    IF n = 0 \/ LoopDone(s, img) THEN s
    ELSE IF n = 1 THEN LoopBody(s, img)
    ELSE ScanFrom(ScanFrom(s, img, n \div 2), img, n - (n \div 2))

read_info_from_image_stealth(img) ==
    StealthReturn(ScanFrom(ScanInit, img, img.width * img.height))

----------------------------------------------------------------------------
(* Python values.  Every value is a record of the same shape, so that any   *)
(* two of them can be compared: t is the type, s the characters of a str    *)
(* (or the literal of a float), n the number of an int or bool, o the       *)
(* entries of a dict in insertion order (or the items of a list, with       *)
(* empty keys).                                                             *)

PyNone == [t |-> "none", s |-> <<>>, n |-> 0, o |-> <<>>]
PyStr(x) == [t |-> "str", s |-> x, n |-> 0, o |-> <<>>]
PyInt(k) == [t |-> "int", s |-> <<>>, n |-> k, o |-> <<>>]
PyFloat(lit) == [t |-> "float", s |-> lit, n |-> 0, o |-> <<>>]
PyBool(b) == [t |-> "bool", s |-> <<>>, n |-> IF b THEN 1 ELSE 0, o |-> <<>>]
PyBytes == [t |-> "bytes", s |-> <<>>, n |-> 0, o |-> <<>>]
PyDict(entries) == [t |-> "dict", s |-> <<>>, n |-> 0, o |-> entries]
PyList(items) == [t |-> "list", s |-> <<>>, n |-> 0,
                  o |-> [i \in 1..Len(items) |-> [k |-> <<>>, v |-> items[i]]]]
Entry(key, val) == [k |-> key, v |-> val]

\* bool(v); a float is false only as a zero literal, bytes here are never empty
Truthy(v) ==
    IF v.t = "none" THEN FALSE
    ELSE IF v.t \in {"bool", "int"} THEN v.n # 0
    ELSE IF v.t = "str" THEN v.s # <<>>
    ELSE IF v.t = "float" THEN \E i \in 1..Len(v.s) : v.s[i] \in 49..57
    ELSE IF v.t \in {"dict", "list"} THEN v.o # <<>>
    ELSE TRUE

\* key in d, d.get(key), d[key] = val for a dict d
DictHas(d, key) == \E i \in 1..Len(d.o) : d.o[i].k = key
DictGet(d, key) ==
    IF DictHas(d, key) THEN d.o[CHOOSE i \in 1..Len(d.o) : d.o[i].k = key].v ELSE PyNone
DictSet(d, key, val) ==
    IF DictHas(d, key)
    THEN [d EXCEPT !.o = [i \in 1..Len(d.o) |->
                            IF d.o[i].k = key THEN Entry(key, val) ELSE d.o[i]]]
    ELSE [d EXCEPT !.o = Append(d.o, Entry(key, val))]

RECURSIVE DictUpdate(_, _)
\* {**d, **e}
DictUpdate(d, e) ==
    IF Len(e.o) = 0 THEN d
    ELSE DictUpdate(DictSet(d, e.o[1].k, e.o[1].v), [e EXCEPT !.o = Tail(e.o)])

----------------------------------------------------------------------------
(* str methods, on sequences of code points *)

Min(a, b) == IF a <= b THEN a ELSE b
MinOf(S) == CHOOSE m \in S : \A k \in S : m <= k
MaxOf(S) == CHOOSE m \in S : \A k \in S : m >= k

\* str.isspace() of one character
IsSpace(c) ==
    c \in {9, 10, 11, 12, 13, 28, 29, 30, 31, 32, 133, 160, 5760, 8232, 8233, 8239,
           8287, 12288} \cup (8192..8202)

\* s.strip()
Strip(s) ==
    LET keep == {i \in 1..Len(s) : ~IsSpace(s[i])}
    IN IF keep = {} THEN <<>> ELSE SubSeq(s, MinOf(keep), MaxOf(keep))

\* s.startswith(p), s.endswith(p), p in s
StartsWith(s, p) == Len(p) <= Len(s) /\ SubSeq(s, 1, Len(p)) = p
EndsWith(s, p) == Len(p) <= Len(s) /\ SubSeq(s, Len(s) - Len(p) + 1, Len(s)) = p
Contains(s, p) == \E i \in 0..(Len(s) - Len(p)) : SubSeq(s, i + 1, i + Len(p)) = p

\* s[k:] for k >= 0
From(s, k) == SubSeq(s, k + 1, Len(s))

\* s.lower(), for ASCII and Latin-1 letters
LowerChar(c) ==
    IF (c >= 65 /\ c <= 90) \/ (c >= 192 /\ c <= 222 /\ c # 215) THEN c + 32 ELSE c
Lower(s) == [i \in 1..Len(s) |-> LowerChar(s[i])]

\* s.split(c) for a one-character separator: the pieces between the
\* separators, empty ones kept
SplitOn(s, c) ==
    LET cuts == {i \in 1..Len(s) : s[i] = c}
        starts == {1} \cup {i + 1 : i \in cuts}
        ordered == [k \in 1..Cardinality(starts) |->
                      CHOOSE a \in starts : Cardinality({b \in starts : b < a}) = k - 1]
    IN [k \in 1..Cardinality(starts) |->
          LET a == ordered[k]
              ends == {i \in cuts : i >= a}
          IN SubSeq(s, a, IF ends = {} THEN Len(s) ELSE MinOf(ends) - 1)]

\* s.split(c, 1)
SplitFirst(s, c) ==
    LET cuts == {i \in 1..Len(s) : s[i] = c}
    IN IF cuts = {} THEN <<s>>
       ELSE <<SubSeq(s, 1, MinOf(cuts) - 1), From(s, MinOf(cuts))>>

\* the characters str.splitlines() breaks a line at
IsLineBreak(c) == c \in {10, 11, 12, 13, 28, 29, 30, 133, 8232, 8233}

\* s.splitlines(): '\r\n' is one break, no empty last line
SplitLines(s) ==
    LET brk == {i \in 1..Len(s) :
                  IsLineBreak(s[i]) /\ ~(s[i] = 13 /\ i < Len(s) /\ s[i + 1] = 10)}
        \* a '\r' that only opens a '\r\n' belongs to the break, not to the line
        starts == {a \in {1} \cup {i + 1 : i \in brk} : a <= Len(s)}
        ordered == [k \in 1..Cardinality(starts) |->
                      CHOOSE a \in starts : Cardinality({b \in starts : b < a}) = k - 1]
    IN [k \in 1..Cardinality(starts) |->
          LET a == ordered[k]
              ends == {i \in brk : i >= a}
              last == IF ends = {} THEN Len(s) ELSE MinOf(ends) - 1
          IN IF last >= a /\ s[last] = 13 /\ last < Len(s) /\ s[last + 1] = 10
             THEN SubSeq(s, a, last - 1)
             ELSE SubSeq(s, a, last)]

RECURSIVE Concat(_)
\* the sequences of a sequence, one after the other (by halves)
Concat(seqs) ==
    IF Len(seqs) = 0 THEN <<>>
    ELSE IF Len(seqs) = 1 THEN seqs[1]
    ELSE LET h == Len(seqs) \div 2
         IN Concat(SubSeq(seqs, 1, h)) \o Concat(SubSeq(seqs, h + 1, Len(seqs)))

RECURSIVE Join(_, _)
\* sep.join(parts)
Join(parts, sep) ==
    IF Len(parts) = 0 THEN <<>>
    ELSE IF Len(parts) = 1 THEN parts[1]
    ELSE parts[1] \o sep \o Join(Tail(parts), sep)

IsDigit(c) == c >= 48 /\ c <= 57

RECURSIVE DigitsValue(_)
DigitsValue(s) ==
    IF Len(s) = 0 THEN 0
    ELSE 10 * DigitsValue(SubSeq(s, 1, Len(s) - 1)) + (s[Len(s)] - 48)

RECURSIVE DigitsOf(_)
\* str(n) for n >= 0
DigitsOf(n) == IF n < 10 THEN <<48 + n>> ELSE DigitsOf(n \div 10) \o <<48 + (n % 10)>>

IntToStr(n) == IF n < 0 THEN <<45>> \o DigitsOf(-n) ELSE DigitsOf(n)
----------------------------------------------------------------------------
(* json.loads and json.dumps (objects, arrays, strings, numbers without     *)
(* NaN/Infinity, null, true, false; characters below U+10000)               *)

K_Comment == <<67,111,109,109,101,110,116>>   \* 'Comment'
K_parameters == <<112,97,114,97,109,101,116,101,114,115>>   \* 'parameters'
K_prompt == <<112,114,111,109,112,116>>   \* 'prompt'
K_uc == <<117,99>>   \* 'uc'
K_negative_prompt == <<110,101,103,97,116,105,118,101,95,112,114,111,109,112,116>>   \* 'negative_prompt'
K_exif == <<101,120,105,102>>   \* 'exif'
K_comment == <<99,111,109,109,101,110,116>>   \* 'comment'
M_Prompt == <<80,114,111,109,112,116,58>>   \* 'Prompt:'
M_NegativePrompt == <<78,101,103,97,116,105,118,101,32,112,114,111,109,112,116,58>>   \* 'Negative prompt:'
M_Steps == <<83,116,101,112,115,58>>   \* 'Steps:'
W_null == <<110,117,108,108>>   \* 'null'
W_true == <<116,114,117,101>>   \* 'true'
W_false == <<102,97,108,115,101>>   \* 'false'

\* the result of a parsing step: the value and the position after it
ParseFail == [ok |-> FALSE, v |-> PyNone, pos |-> 0]
Parsed(val, p) == [ok |-> TRUE, v |-> val, pos |-> p]

\* the first position from i on that holds no JSON whitespace
SkipWs(txt, i) ==
    MinOf({j \in i..(Len(txt) + 1) : j > Len(txt) \/ txt[j] \notin {32, 9, 10, 13}})

HexValue(c) ==
    IF IsDigit(c) THEN c - 48
    ELSE IF c >= 97 /\ c <= 102 THEN c - 87
    ELSE IF c >= 65 /\ c <= 70 THEN c - 55
    ELSE -1

HexDigit(d) == IF d < 10 THEN 48 + d ELSE 87 + d

\* the character a two-character escape stands for, -1 if there is none
Unescape(c) ==
    IF c \in {34, 92, 47} THEN c
    ELSE IF c = 110 THEN 10
    ELSE IF c = 116 THEN 9
    ELSE IF c = 114 THEN 13
    ELSE IF c = 98 THEN 8
    ELSE IF c = 102 THEN 12
    ELSE -1

\* the backslashes that stand right before position p of the literal whose
\* characters start at j
BackslashRun(txt, j, p) ==
    (p - 1) - MaxOf({q \in (j - 1)..(p - 1) : q = j - 1 \/ txt[q] # 92})

\* a quote at p with an even number of backslashes before it
ClosesAt(txt, j, p) == txt[p] = 34 /\ BackslashRun(txt, j, p) % 2 = 0

\* the closing quote of the literal whose characters start at j: the first
\* quote with an even number of backslashes before it, 0 if there is none
ClosingQuote(txt, j) ==
    IF \E p \in j..Len(txt) : ClosesAt(txt, j, p)
    THEN CHOOSE p \in j..Len(txt) :
            ClosesAt(txt, j, p) /\ \A q \in j..(p - 1) : ~ClosesAt(txt, j, q)
    ELSE 0

\* the characters at the positions starts, an escape taken as the
\* character it stands for
StringOf(txt, j, e, starts) ==
    LET EscStart(p) == p >= j /\ p < e /\ txt[p] = 92 /\ BackslashRun(txt, j, p) % 2 = 0
        char(p) ==
            IF ~EscStart(p) THEN txt[p]
            ELSE IF txt[p + 1] = 117
            THEN 4096 * HexValue(txt[p + 2]) + 256 * HexValue(txt[p + 3])
                 + 16 * HexValue(txt[p + 4]) + HexValue(txt[p + 5])
            ELSE Unescape(txt[p + 1])
    IN PyStr([k \in 1..Len(starts) |-> char(starts[k])])

\* the literal from j to its closing quote at e
StringBodyTo(txt, j, e) ==
    LET EscStart(p) == p >= j /\ p < e /\ txt[p] = 92 /\ BackslashRun(txt, j, p) % 2 = 0
        IsU(p) == EscStart(p) /\ txt[p + 1] = 117
        Covered(p) == EscStart(p - 1) \/ \E k \in 2..5 : IsU(p - k)
        bad == \E p \in j..(e - 1) :
                  \/ txt[p] < 32
                  \/ EscStart(p) /\ ~IsU(p) /\ Unescape(txt[p + 1]) < 0
                  \/ IsU(p) /\ (p + 5 > Len(txt) \/ \E k \in 2..5 : HexValue(txt[p + k]) < 0)
        Starts(p) == ~Covered(p)
    IN IF bad THEN ParseFail
       ELSE Parsed(StringOf(txt, j, e, SelectSeq([k \in 1..(e - j) |-> j + k - 1], Starts)),
                   e + 1)

\* the characters of a string literal from position j (after the opening
\* quote) to its closing quote: the closing quote is the first one with an
\* even number of backslashes before it
ParseStringBody(txt, j) ==
    IF ClosingQuote(txt, j) = 0 THEN ParseFail
    ELSE StringBodyTo(txt, j, ClosingQuote(txt, j))

\* the end of the run of digits that starts at i (i itself if there is none)
DigitsEnd(txt, i) ==
    MinOf({j \in i..(Len(txt) + 1) : j > Len(txt) \/ ~IsDigit(txt[j])})

\* -?(0|[1-9][0-9]*)(.[0-9]+)?([eE][+-]?[0-9]+)? at position i
ParseNumber(txt, i) ==
    LET neg == i <= Len(txt) /\ txt[i] = 45
        a == IF neg THEN i + 1 ELSE i
        b == DigitsEnd(txt, a)
        intOk == b > a /\ (txt[a] # 48 \/ b = a + 1)
        hasFrac == b <= Len(txt) /\ txt[b] = 46
        c == IF hasFrac THEN DigitsEnd(txt, b + 1) ELSE b
        fracOk == ~hasFrac \/ c > b + 1
        hasExp == c <= Len(txt) /\ txt[c] \in {101, 69}
        d == IF hasExp /\ c + 1 <= Len(txt) /\ txt[c + 1] \in {43, 45} THEN c + 2 ELSE c + 1
        e == IF hasExp THEN DigitsEnd(txt, d) ELSE c
        expOk == ~hasExp \/ e > d
    IN IF ~intOk \/ ~fracOk THEN ParseFail
       ELSE IF hasExp /\ ~expOk
       THEN (IF hasFrac THEN Parsed(PyFloat(SubSeq(txt, i, c - 1)), c)
             ELSE Parsed(PyInt((IF neg THEN -1 ELSE 1) * DigitsValue(SubSeq(txt, a, b - 1))), b))
       ELSE IF hasFrac \/ hasExp THEN Parsed(PyFloat(SubSeq(txt, i, e - 1)), e)
       ELSE Parsed(PyInt((IF neg THEN -1 ELSE 1) * DigitsValue(SubSeq(txt, a, b - 1))), b)

RECURSIVE ParseValue(_, _), ParseMembers(_, _, _), ParseItems(_, _, _)
RECURSIVE MemberAfterKey(_, _, _), MemberAfterValue(_, _, _, _), MembersNext(_, _, _)
RECURSIVE ItemAfterValue(_, _, _), ItemsNext(_, _, _)

\* a JSON value at or after position i
ParseValue(txt, i) ==
    LET j == SkipWs(txt, i)
    IN IF j > Len(txt) THEN ParseFail
       ELSE IF txt[j] = 123
       THEN LET k == SkipWs(txt, j + 1)
            IN IF k <= Len(txt) /\ txt[k] = 125 THEN Parsed(PyDict(<<>>), k + 1)
               ELSE ParseMembers(txt, k, PyDict(<<>>))
       ELSE IF txt[j] = 91
       THEN LET k == SkipWs(txt, j + 1)
            IN IF k <= Len(txt) /\ txt[k] = 93 THEN Parsed(PyList(<<>>), k + 1)
               ELSE ParseItems(txt, k, PyList(<<>>))
       ELSE IF txt[j] = 34 THEN ParseStringBody(txt, j + 1)
       ELSE IF StartsWith(From(txt, j - 1), W_null) THEN Parsed(PyNone, j + 4)
       ELSE IF StartsWith(From(txt, j - 1), W_true) THEN Parsed(PyBool(TRUE), j + 4)
       ELSE IF StartsWith(From(txt, j - 1), W_false) THEN Parsed(PyBool(FALSE), j + 5)
       ELSE ParseNumber(txt, j)

\* "key": value pairs up to the closing brace; a repeated key keeps its
\* place and takes the later value
ParseMembers(txt, i, acc) ==
    IF i > Len(txt) \/ txt[i] # 34 THEN ParseFail
    ELSE MemberAfterKey(txt, ParseStringBody(txt, i + 1), acc)

\* the colon and the value after a key
MemberAfterKey(txt, key, acc) ==
    IF ~key.ok THEN ParseFail
    ELSE IF SkipWs(txt, key.pos) > Len(txt) \/ txt[SkipWs(txt, key.pos)] # 58 THEN ParseFail
    ELSE MemberAfterValue(txt, key, ParseValue(txt, SkipWs(txt, key.pos) + 1), acc)

MemberAfterValue(txt, key, val, acc) ==
    IF ~val.ok THEN ParseFail
    ELSE MembersNext(txt, SkipWs(txt, val.pos), DictSet(acc, key.v.s, val.v))

\* the comma or the closing brace at position e
MembersNext(txt, e, acc) ==
    IF e > Len(txt) THEN ParseFail
    ELSE IF txt[e] = 125 THEN Parsed(acc, e + 1)
    ELSE IF txt[e] = 44 THEN ParseMembers(txt, SkipWs(txt, e + 1), acc)
    ELSE ParseFail

\* values up to the closing bracket
ParseItems(txt, i, acc) == ItemAfterValue(txt, ParseValue(txt, i), acc)

ItemAfterValue(txt, val, acc) ==
    IF ~val.ok THEN ParseFail
    ELSE ItemsNext(txt, SkipWs(txt, val.pos), [acc EXCEPT !.o = Append(@, Entry(<<>>, val.v))])

\* the comma or the closing bracket at position e
ItemsNext(txt, e, acc) ==
    IF e > Len(txt) THEN ParseFail
    ELSE IF txt[e] = 93 THEN Parsed(acc, e + 1)
    ELSE IF txt[e] = 44 THEN ParseItems(txt, e + 1, acc)
    ELSE ParseFail

\* the value, if nothing but white space follows it
WholeText(txt, r) == IF r.ok /\ SkipWs(txt, r.pos) > Len(txt) THEN r ELSE ParseFail

\* json.loads(txt) for a str txt: ok is false for a JSONDecodeError
JsonLoads(txt) == WholeText(txt, ParseValue(txt, 1))

\* one character inside a JSON string literal (ensure_ascii)
EscapeChar(c) ==
    IF c = 34 THEN <<92, 34>>
    ELSE IF c = 92 THEN <<92, 92>>
    ELSE IF c = 10 THEN <<92, 110>>
    ELSE IF c = 13 THEN <<92, 114>>
    ELSE IF c = 9 THEN <<92, 116>>
    ELSE IF c = 8 THEN <<92, 98>>
    ELSE IF c = 12 THEN <<92, 102>>
    ELSE IF c >= 32 /\ c <= 126 THEN <<c>>
    ELSE <<92, 117, HexDigit(c \div 4096), HexDigit((c \div 256) % 16),
           HexDigit((c \div 16) % 16), HexDigit(c % 16)>>

EscapeString(s) == Concat([i \in 1..Len(s) |-> EscapeChar(s[i])])

RECURSIVE JsonDumps(_), DumpEntries(_, _)

\* the text between the brackets
Bracketed(open, r, close) ==
    [ok |-> r.ok, s |-> IF r.ok THEN <<open>> \o r.s \o <<close>> ELSE <<>>]

\* json.dumps(v): ok is false for a TypeError (bytes are not serializable)
JsonDumps(v) ==
    IF v.t = "none" THEN [ok |-> TRUE, s |-> W_null]
    ELSE IF v.t = "bool" THEN [ok |-> TRUE, s |-> IF v.n = 1 THEN W_true ELSE W_false]
    ELSE IF v.t = "int" THEN [ok |-> TRUE, s |-> IntToStr(v.n)]
    ELSE IF v.t = "float" THEN [ok |-> TRUE, s |-> v.s]
    ELSE IF v.t = "str" THEN [ok |-> TRUE, s |-> <<34>> \o EscapeString(v.s) \o <<34>>]
    ELSE IF v.t = "dict" THEN Bracketed(123, DumpEntries(v.o, TRUE), 125)
    ELSE IF v.t = "list" THEN Bracketed(91, DumpEntries(v.o, FALSE), 93)
    ELSE [ok |-> FALSE, s |-> <<>>]

\* "key": value (or the value alone) and the entries after it
DumpEntry(key, keyed, val, rest, last) ==
    IF ~val.ok \/ ~rest.ok THEN [ok |-> FALSE, s |-> <<>>]
    ELSE [ok |-> TRUE,
          s |-> (IF keyed THEN <<34>> \o EscapeString(key) \o <<34, 58, 32>> ELSE <<>>)
                \o val.s \o (IF last THEN <<>> ELSE <<44, 32>> \o rest.s)]

\* the entries joined by ', '
DumpEntries(entries, keyed) ==
    IF Len(entries) = 0 THEN [ok |-> TRUE, s |-> <<>>]
    ELSE DumpEntry(entries[1].k, keyed, JsonDumps(entries[1].v),
                   DumpEntries(Tail(entries), keyed), Len(entries) = 1)
----------------------------------------------------------------------------
(* The dialect parsers of image_utils.py *)

\* TARGETKEY_NAIDICT_OPTION, in the order of the tuple
TARGETKEY_NAIDICT_OPTION == <<
    <<115,116,101,112,115>>,   \* 'steps'
    <<104,101,105,103,104,116>>,   \* 'height'
    <<119,105,100,116,104>>,   \* 'width'
    <<115,99,97,108,101>>,   \* 'scale'
    <<115,101,101,100>>,   \* 'seed'
    <<115,97,109,112,108,101,114>>,   \* 'sampler'
    <<110,95,115,97,109,112,108,101,115>>,   \* 'n_samples'
    <<115,109>>,   \* 'sm'
    <<115,109,95,100,121,110>>,   \* 'sm_dyn'
    <<99,102,103,32,115,99,97,108,101>>,   \* 'cfg scale'
    <<99,102,103,95,115,99,97,108,101>>,   \* 'cfg_scale'
    <<99,108,105,112,32,115,107,105,112>>,   \* 'clip skip'
    <<99,108,105,112,95,115,107,105,112>>,   \* 'clip_skip'
    <<115,99,104,101,100,117,108,101,32,116,121,112,101>>,   \* 'schedule type'
    <<115,99,104,101,100,117,108,101,95,116,121,112,101>>,   \* 'schedule_type'
    <<115,105,122,101>>,   \* 'size'
    <<109,111,100,101,108>>,   \* 'model'
    <<109,111,100,101,108,32,104,97,115,104>>,   \* 'model hash'
    <<109,111,100,101,108,95,104,97,115,104>>,   \* 'model_hash'
    <<100,101,110,111,105,115,105,110,103,32,115,116,114,101,110,103,116,104>>,   \* 'denoising strength'
    <<100,101,110,111,105,115,105,110,103,95,115,116,114,101,110,103,116,104>>   \* 'denoising_strength'
    >>

\* WEBUI_OPTION_MAPPING, in the order of the dict
WEBUI_OPTION_MAPPING == PyDict(<<
    Entry(<<99,102,103,32,115,99,97,108,101>>, PyStr(<<115,99,97,108,101>>)),   \* 'cfg scale': 'scale'
    Entry(<<99,102,103,95,115,99,97,108,101>>, PyStr(<<115,99,97,108,101>>)),   \* 'cfg_scale': 'scale'
    Entry(<<99,108,105,112,32,115,107,105,112>>, PyStr(<<99,108,105,112,95,115,107,105,112>>)),   \* 'clip skip': 'clip_skip'
    Entry(<<99,108,105,112,95,115,107,105,112>>, PyStr(<<99,108,105,112,95,115,107,105,112>>)),   \* 'clip_skip': 'clip_skip'
    Entry(<<115,99,104,101,100,117,108,101,32,116,121,112,101>>, PyStr(<<115,99,104,101,100,117,108,101,95,116,121,112,101>>)),   \* 'schedule type': 'schedule_type'
    Entry(<<115,99,104,101,100,117,108,101,95,116,121,112,101>>, PyStr(<<115,99,104,101,100,117,108,101,95,116,121,112,101>>)),   \* 'schedule_type': 'schedule_type'
    Entry(<<109,111,100,101,108,32,104,97,115,104>>, PyStr(<<109,111,100,101,108,95,104,97,115,104>>)),   \* 'model hash': 'model_hash'
    Entry(<<109,111,100,101,108,95,104,97,115,104>>, PyStr(<<109,111,100,101,108,95,104,97,115,104>>)),   \* 'model_hash': 'model_hash'
    Entry(<<100,101,110,111,105,115,105,110,103,32,115,116,114,101,110,103,116,104>>, PyStr(<<100,101,110,111,105,115,105,110,103,95,115,116,114,101,110,103,116,104>>)),   \* 'denoising strength': 'denoising_strength'
    Entry(<<100,101,110,111,105,115,105,110,103,95,115,116,114,101,110,103,116,104>>, PyStr(<<100,101,110,111,105,115,105,110,103,95,115,116,114,101,110,103,116,104>>))   \* 'denoising_strength': 'denoising_strength'
    >>)

\* key in container, for a str key: exc is the TypeError of a container that
\* supports no membership test
PyIn(key, c) ==
    IF c.t = "dict" THEN [exc |-> FALSE, b |-> DictHas(c, key)]
    ELSE IF c.t = "str" THEN [exc |-> FALSE, b |-> Contains(c.s, key)]
    ELSE IF c.t = "list"
    THEN [exc |-> FALSE, b |-> \E i \in 1..Len(c.o) : c.o[i].v = PyStr(key)]
    ELSE [exc |-> TRUE, b |-> FALSE]

\* container[key], for a str key: exc is the KeyError or TypeError
PyItem(c, key) ==
    IF c.t = "dict" /\ DictHas(c, key) THEN [exc |-> FALSE, v |-> DictGet(c, key)]
    ELSE [exc |-> TRUE, v |-> PyNone]

\* json.loads(v): anything but a str is a TypeError
PyJsonLoads(v) == IF v.t = "str" THEN JsonLoads(v.s) ELSE ParseFail

\* 'Comment' in data and data['Comment'] is not None, False for an exception
HasComment(data) ==
    /\ data.ok
    /\ ~PyIn(K_Comment, data.v).exc
    /\ PyIn(K_Comment, data.v).b
    /\ ~PyItem(data.v, K_Comment).exc
    /\ PyItem(data.v, K_Comment).v.t # "none"

is_nai_exif(info_str) == Truthy(info_str) /\ HasComment(PyJsonLoads(info_str))

\* int(value) succeeds: an optional sign and decimal digits
IsIntLiteral(s) ==
    LET d == IF Len(s) > 0 /\ s[1] \in {43, 45} THEN Tail(s) ELSE s
    IN Len(d) > 0 /\ \A i \in 1..Len(d) : IsDigit(d[i])

IntLiteralValue(s) ==
    IF s[1] = 45 THEN -DigitsValue(Tail(s))
    ELSE IF s[1] = 43 THEN DigitsValue(Tail(s))
    ELSE DigitsValue(s)

\* float(value) succeeds, for a value that holds a '.': an optional sign,
\* digits around one point (at least one digit), an optional exponent
IsFloatLiteral(s) ==
    LET d == IF Len(s) > 0 /\ s[1] \in {43, 45} THEN Tail(s) ELSE s
        a == DigitsEnd(d, 1)
        b == IF a <= Len(d) /\ d[a] = 46 THEN DigitsEnd(d, a + 1) ELSE a
        hasExp == b <= Len(d) /\ d[b] \in {101, 69}
        c == IF hasExp /\ b + 1 <= Len(d) /\ d[b + 1] \in {43, 45} THEN b + 2 ELSE b + 1
        e == IF hasExp THEN DigitsEnd(d, c) ELSE b
    IN /\ a <= Len(d) /\ d[a] = 46
       /\ (a - 1) + (b - a - 1) > 0
       /\ (hasExp => e > c)
       /\ e = Len(d) + 1

\* the try block of lines 82-88: float if the value holds a '.', else int,
\* and the string itself if the conversion fails (a float keeps its literal)
CoerceValue(value) ==
    IF Contains(value, <<46>>)
    THEN (IF IsFloatLiteral(value) THEN PyFloat(value) ELSE PyStr(value))
    ELSE (IF IsIntLiteral(value) THEN PyInt(IntLiteralValue(value)) ELSE PyStr(value))

\* key.lower() in [k.lower() for k in TARGETKEY_NAIDICT_OPTION]
IsTargetKey(key) ==
    \E i \in 1..Len(TARGETKEY_NAIDICT_OPTION) :
        Lower(TARGETKEY_NAIDICT_OPTION[i]) = Lower(key)

\* lines 90-96 for a key and its value
RouteOption(key, value, acc) ==
    IF IsTargetKey(key) THEN [acc EXCEPT !.options = DictSet(@, key, value)]
    ELSE [acc EXCEPT !.etc = DictSet(@, key, value)]

\* WEBUI_OPTION_MAPPING[key] if key in WEBUI_OPTION_MAPPING
MappedKey(key) ==
    IF DictHas(WEBUI_OPTION_MAPPING, key) THEN DictGet(WEBUI_OPTION_MAPPING, key).s ELSE key

\* lines 77-96 for the two sides of the first ':'
KeyValuePart(kv, acc) ==
    RouteOption(MappedKey(Lower(Strip(kv[1]))), CoerceValue(Strip(kv[2])), acc)

\* lines 76-98 for a stripped part
OptionPart(part, acc) ==
    IF Contains(part, <<58>>) THEN KeyValuePart(SplitFirst(part, 58), acc)
    ELSE IF part # <<>> THEN [acc EXCEPT !.etc = DictSet(@, part, PyStr(<<>>))]
    ELSE acc

RECURSIVE ParseOptionParts(_, _)
\* the loop body of lines 74-98 over the comma-separated parts of all option
\* lines; acc holds the dicts options and etc
ParseOptionParts(parts, acc) ==
    IF Len(parts) = 0 THEN acc
    ELSE ParseOptionParts(Tail(parts), OptionPart(Strip(parts[1]), acc))

\* the comma-separated parts of the option lines
OptionParts(option_lines) ==
    Concat([i \in 1..Len(option_lines) |-> SplitOn(Strip(option_lines[i]), 44)])

\* lines 100-106
WebuiDict(prompt, negative_prompt, parsed) ==
    DictUpdate(DictUpdate(
        PyDict(<<Entry(K_prompt, PyStr(prompt)), Entry(K_uc, PyStr(negative_prompt)),
                 Entry(K_negative_prompt, PyStr(negative_prompt))>>),
        parsed.options), parsed.etc)

\* lines 57-106 for the lines and the index (from 0) of the first line that
\* starts with 'Negative prompt:', -1 if there is none
WebuiSplit(lines, neg_prompt_index) ==
    IF neg_prompt_index > 0
    THEN WebuiDict(Strip(Join(SubSeq(lines, 1, neg_prompt_index), <<10>>)),
                   Strip(From(lines[neg_prompt_index + 1], Len(M_NegativePrompt))),
                   ParseOptionParts(
                       OptionParts(SubSeq(lines, neg_prompt_index + 2, Len(lines))),
                       [options |-> PyDict(<<>>), etc |-> PyDict(<<>>)]))
    ELSE WebuiDict(Strip(Join(lines, <<10>>)), <<>>,
                   [options |-> PyDict(<<>>), etc |-> PyDict(<<>>)])

\* lines 50-54
NegPromptIndex(lines) ==
    LET hits == {i \in 1..Len(lines) : StartsWith(Strip(lines[i]), M_NegativePrompt)}
    IN IF hits = {} THEN -1 ELSE MinOf(hits) - 1

WebuiFromLines(lines) ==
    IF Len(lines) = 0 THEN PyDict(<<>>) ELSE WebuiSplit(lines, NegPromptIndex(lines))

\* parse_webui_exif for a str
parse_webui_exif(parameters_str) == WebuiFromLines(SplitLines(parameters_str))

\* "Prompt:" in s or "Negative prompt:" in s or "Steps:" in s
HasWebuiMarker(s) ==
    Contains(s, M_Prompt) \/ Contains(s, M_NegativePrompt) \/ Contains(s, M_Steps)

\* lines 114-120 for the parsed data
ExifdictFromData(data) ==
    IF PyIn(K_parameters, data).exc THEN PyNone
    ELSE IF PyIn(K_parameters, data).b
    THEN (IF PyItem(data, K_parameters).exc \/ PyItem(data, K_parameters).v.t # "str"
          THEN PyNone
          ELSE parse_webui_exif(PyItem(data, K_parameters).v.s))
    ELSE IF PyIn(K_Comment, data).b THEN PyNone
    ELSE data

\* lines 111-136 for a str and the outcome of json.loads
ExifdictFromLoaded(s, loaded) ==
    IF loaded.ok THEN ExifdictFromData(loaded.v)
    ELSE IF HasWebuiMarker(s) THEN parse_webui_exif(s)
    ELSE PyNone

\* _get_exifdict_from_infostr: a value or None, no exception leaves it
_get_exifdict_from_infostr(info_str) ==
    IF ~Truthy(info_str) THEN PyNone
    ELSE IF info_str.t # "str" THEN PyNone
    ELSE ExifdictFromLoaded(info_str.s, JsonLoads(info_str.s))

\* mutant: a true value that is no str counts as an empty text
GetStripped_lenient(d, key) ==
    LET v == DictGet(d, key)
    IN IF Truthy(v) /\ v.t = "str" THEN [exc |-> FALSE, s |-> Strip(v.s)]
       ELSE [exc |-> FALSE, s |-> <<>>]

\* (d.get(key) or "").strip(): exc is the AttributeError of a true value
\* that is no str
GetStripped(d, key) ==
    LET v == DictGet(d, key)
    IN IF ~Truthy(v) THEN [exc |-> FALSE, s |-> <<>>]
       ELSE IF v.t = "str" THEN [exc |-> FALSE, s |-> Strip(v.s)]
       ELSE [exc |-> TRUE, s |-> <<>>]

RECURSIVE CopyTargetKeys(_, _, _)
\* lines 155-157, from the i-th key on
CopyTargetKeys(exif_dict, i, option_dict) ==
    IF i > Len(TARGETKEY_NAIDICT_OPTION) THEN option_dict
    ELSE LET key == TARGETKEY_NAIDICT_OPTION[i]
         IN CopyTargetKeys(exif_dict, i + 1,
               IF DictHas(exif_dict, key) /\ DictGet(exif_dict, key).t # "none"
               THEN DictSet(option_dict, key, DictGet(exif_dict, key))
               ELSE option_dict)

RECURSIVE CopyMappedKeys(_, _, _)
\* lines 160-162, from the i-th pair on
CopyMappedKeys(exif_dict, i, option_dict) ==
    IF i > Len(WEBUI_OPTION_MAPPING.o) THEN option_dict
    ELSE LET webui_key == WEBUI_OPTION_MAPPING.o[i].k
             nai_key == WEBUI_OPTION_MAPPING.o[i].v.s
         IN CopyMappedKeys(exif_dict, i + 1,
               IF DictHas(exif_dict, webui_key) /\ DictGet(exif_dict, webui_key).t # "none"
               THEN DictSet(option_dict, nai_key, DictGet(exif_dict, webui_key))
               ELSE option_dict)

\* mutant: only the prompt keys are kept out of etc
ExcludedKeys_prompt_only == {K_prompt, K_uc, K_negative_prompt}

\* list(TARGETKEY_NAIDICT_OPTION) + ["prompt", "uc", "negative_prompt"] + the
\* keys of WEBUI_OPTION_MAPPING
ExcludedKeys ==
    {TARGETKEY_NAIDICT_OPTION[i] : i \in 1..Len(TARGETKEY_NAIDICT_OPTION)}
    \cup {K_prompt, K_uc, K_negative_prompt}
    \cup {WEBUI_OPTION_MAPPING.o[i].k : i \in 1..Len(WEBUI_OPTION_MAPPING.o)}

K_option == <<111,112,116,105,111,110>>   \* 'option'
K_etc == <<101,116,99>>   \* 'etc'

\* the entries of a sequence that satisfy keep, in order
RECURSIVE FilterEntries(_, _)
FilterEntries(entries, excluded) ==
    IF Len(entries) = 0 THEN <<>>
    ELSE (IF entries[1].k \in excluded THEN <<>> ELSE <<entries[1]>>)
         \o FilterEntries(Tail(entries), excluded)

\* _get_naidict_from_exifdict: the record, or None after an exception
_get_naidict_from_exifdict(exif_dict) ==
    IF exif_dict.t # "dict" THEN PyNone
    ELSE
      LET prompt == GetStripped(exif_dict, K_prompt)
          uc == GetStripped(exif_dict, K_uc)
          np == GetStripped(exif_dict, K_negative_prompt)
          useUc == DictHas(exif_dict, K_uc) /\ DictGet(exif_dict, K_uc).t # "none"
          useNp == ~useUc /\ DictHas(exif_dict, K_negative_prompt)
                   /\ DictGet(exif_dict, K_negative_prompt).t # "none"
          negative == IF useUc THEN uc.s ELSE IF useNp THEN np.s ELSE <<>>
          option_dict == CopyMappedKeys(exif_dict, 1,
                            CopyTargetKeys(exif_dict, 1, PyDict(<<>>)))
          etc_dict == PyDict(FilterEntries(exif_dict.o, ExcludedKeys))
      IN IF prompt.exc \/ (useUc /\ uc.exc) \/ (useNp /\ np.exc) THEN PyNone
         ELSE PyDict(<<Entry(K_prompt, PyStr(prompt.s)),
                       Entry(K_negative_prompt, PyStr(negative)),
                       Entry(K_option, option_dict), Entry(K_etc, etc_dict)>>)
----------------------------------------------------------------------------
(* The orchestrator: the image, the candidate strings, the fallback chain *)

K_class_type == <<99,108,97,115,115,95,116,121,112,101>>   \* 'class_type'
K_inputs == <<105,110,112,117,116,115>>   \* 'inputs'
K_text == <<116,101,120,116>>   \* 'text'
V_CLIPTextEncode == <<67,76,73,80,84,101,120,116,69,110,99,111,100,101>>   \* 'CLIPTextEncode'

\* An image as the reader sees it: the format tag, the info map, the EXIF
\* block behind info['exif'] (exif.kind: "absent", "bad" for bytes piexif
\* cannot load, "nocomment", "badcomment" for a UserComment that cannot be
\* decoded, "comment" with its text), and the pixels with their mode.

\* the result of read_info_from_image_stealth as a value
StealthValue(r) == IF r.some THEN PyStr(r.text) ELSE PyNone

\* read_info_from_image_stealth(img): a pixel of another mode than RGB or
\* RGBA does not unpack into the channels, which raises
StealthCall(img) ==
    IF img.mode \in {"RGB", "RGBA"}
    THEN [exc |-> FALSE, v |-> StealthValue(read_info_from_image_stealth(img))]
    ELSE [exc |-> TRUE, v |-> PyNone]

\* the EXIF branch of _get_infostr_from_img: the decoded UserComment or None
ExifUserComment(img) ==
    IF img.format \in {"WEBP", "JPEG"} /\ Truthy(DictGet(img.info, K_exif))
       /\ img.exif.kind = "comment"
    THEN PyStr(img.exif.text)
    ELSE PyNone

\* json.dumps(img.info), None for the TypeError
DumpedInfo(dumped) == IF dumped.ok THEN PyStr(dumped.s) ELSE PyNone

\* the fallback of _get_infostr_from_img to the info map
InfoCandidate(info) ==
    IF DictHas(info, K_Comment) /\ DictGet(info, K_Comment).t # "none"
    THEN DictGet(info, K_Comment)
    ELSE IF DictHas(info, K_parameters) /\ DictGet(info, K_parameters).t # "none"
    THEN DictGet(info, K_parameters)
    ELSE DumpedInfo(JsonDumps(info))

\* the stealth candidate: None for an exception
StealthCandidate(st_out) == IF st_out.exc THEN PyNone ELSE st_out.v

\* lines 199-211 after the EXIF branch
ExifCandidate(uc, info) ==
    IF uc.t = "none" /\ Truthy(info) THEN InfoCandidate(info) ELSE uc

_get_infostr_from_img(img) ==
    [exif |-> ExifCandidate(ExifUserComment(img), img.info),
     pnginfo |-> StealthCandidate(StealthCall(img))]

\* lines 242-244 for the outcome of the second json.loads
NaiOldRecord(nai_exif) ==
    IF ~nai_exif.ok THEN PyNone ELSE _get_naidict_from_exifdict(nai_exif.v)

\* lines 241-244 for data['Comment']
NaiOldNested(c) == IF c.exc THEN PyNone ELSE NaiOldRecord(PyJsonLoads(c.v))

\* lines 240-244 for the outcome of the first json.loads
NaiOldData(data) == NaiOldNested(PyItem(data.v, K_Comment))

\* mutant: the old method is never tried
NaiOldMethod_skipped(info_str) == PyNone

\* the body of the loop of lines 237-246 for one candidate: the record, or
\* None if the loop goes on
NaiOldMethod(info_str) ==
    IF ~is_nai_exif(info_str) THEN PyNone ELSE NaiOldData(PyJsonLoads(info_str))

\* x or y
PyOr(x, y) == IF Truthy(x) THEN x ELSE y

\* lines 256-262
PickRecord(nd1, nd2, exif, pnginfo) ==
    IF ~Truthy(nd1) /\ ~Truthy(nd2) THEN PyOr(exif, pnginfo)
    ELSE IF Truthy(nd1) THEN nd1
    ELSE nd2

\* nd = _get_naidict_from_exifdict(ed) if ed else None
RecordIf(ed) == IF Truthy(ed) THEN _get_naidict_from_exifdict(ed) ELSE PyNone

\* lines 251-262
WebuiMethod(ed1, ed2, exif, pnginfo) ==
    IF ~Truthy(ed1) /\ ~Truthy(ed2) THEN PyOr(exif, pnginfo)
    ELSE PickRecord(RecordIf(ed1), RecordIf(ed2), exif, pnginfo)

\* lines 237-262 for the records of the old method
AfterOldMethod(old1, old2, exif, pnginfo) ==
    IF old1.t # "none" THEN old1
    ELSE IF old2.t # "none" THEN old2
    ELSE WebuiMethod(_get_exifdict_from_infostr(exif),
                     _get_exifdict_from_infostr(pnginfo), exif, pnginfo)

\* lines 233-262 for the two candidates
NaidictFromCandidates(exif, pnginfo) ==
    IF ~Truthy(exif) /\ ~Truthy(pnginfo) THEN PyNone
    ELSE AfterOldMethod(NaiOldMethod(exif), NaiOldMethod(pnginfo), exif, pnginfo)

CandidatesToNaidict(cand) == NaidictFromCandidates(cand.exif, cand.pnginfo)

\* get_naidict_from_img: the first element of the pair it returns
get_naidict_from_img(img) == CandidatesToNaidict(_get_infostr_from_img(img))

RECURSIVE CollectPrompts(_, _)
\* the loop of lines 346-354 from the i-th node on: the texts found, or exc
\* for an exception
CollectPrompts(nodes, i) ==
    IF i > Len(nodes) THEN [exc |-> FALSE, found |-> <<>>]
    ELSE
      LET node_data == nodes[i].v
          class_type == DictGet(node_data, K_class_type)
          inputs == DictGet(node_data, K_inputs)
          isEncoder == class_type = PyStr(V_CLIPTextEncode) /\ Truthy(inputs)
          has == PyIn(K_text, inputs)
          text == PyItem(inputs, K_text)
          rest == CollectPrompts(nodes, i + 1)
      IN IF node_data.t # "dict" THEN [exc |-> TRUE, found |-> <<>>]
         ELSE IF isEncoder /\ (has.exc \/ (has.b /\ text.exc))
         THEN [exc |-> TRUE, found |-> <<>>]
         ELSE IF rest.exc THEN rest
         ELSE IF isEncoder /\ has.b /\ text.v.t = "str"
         THEN [rest EXCEPT !.found = <<text.v.s>> \o @]
         ELSE rest

\* mutant: only the first text is returned
JoinedPrompts_first(r) ==
    IF r.exc THEN PyNone
    ELSE IF r.found # <<>> THEN PyStr(r.found[1])
    ELSE PyNone

\* lines 356-362 for the outcome of the loop
JoinedPrompts(r) ==
    IF r.exc THEN PyNone
    ELSE IF r.found # <<>> THEN PyStr(Join(r.found, <<10>>))
    ELSE PyNone

\* lines 339-362
PromptsOfData(prompt_data) ==
    IF prompt_data.t # "dict" THEN PyNone
    ELSE JoinedPrompts(CollectPrompts(prompt_data.o, 1))

\* lines 328-332 for the outcome of json.loads
PromptsOfLoaded(loaded) == IF ~loaded.ok THEN PyNone ELSE PromptsOfData(loaded.v)

\* lines 323-362 for image_info.get("prompt")
PromptsOf(prompt_json_str) ==
    IF ~Truthy(prompt_json_str) THEN PyNone
    ELSE IF prompt_json_str.t = "str" THEN PromptsOfLoaded(JsonLoads(prompt_json_str.s))
    ELSE IF prompt_json_str.t = "dict" THEN PromptsOfData(prompt_json_str)
    ELSE PyNone

\* _extract_comfyui_prompt: the joined texts or None
_extract_comfyui_prompt(image_info) == PromptsOf(DictGet(image_info, K_prompt))

\* The attempts of read_info_from_image in their order. Each gives
\* "return" with the value returned, "next" if the chain goes on, or "raise"
\* if an exception leaves the attempt.
Returns(v) == [kind |-> "return", v |-> v]
GoesOn == [kind |-> "next", v |-> PyNone]
Raises == [kind |-> "raise", v |-> PyNone]

\* a value that is true is returned
ReturnIfTrue(v) == IF Truthy(v) THEN Returns(v) ELSE GoesOn

\* lines 269-270 for the value of nai_dict
PromptOfNaidict(nd) ==
    IF ~Truthy(nd) THEN GoesOn
    ELSE IF PyIn(K_prompt, nd).exc THEN Raises
    ELSE IF ~PyIn(K_prompt, nd).b THEN GoesOn
    ELSE IF PyItem(nd, K_prompt).exc THEN Raises
    ELSE Returns(PyItem(nd, K_prompt).v)

\* lines 273-276
ParametersAttempt(img) ==
    ReturnIfTrue(IF DictHas(img.info, K_parameters)
                 THEN DictGet(img.info, K_parameters) ELSE PyStr(<<>>))

\* lines 279-281
ComfyuiAttempt(img) == ReturnIfTrue(_extract_comfyui_prompt(img.info))

\* lines 296-304 for the outcome of json.loads
CommentOfJson(decoded_comment, comment_json) ==
    IF ~comment_json.ok THEN Returns(PyStr(decoded_comment))
    ELSE IF DictHas(comment_json.v, K_comment)
    THEN Returns(DictGet(comment_json.v, K_comment))
    ELSE Returns(PyStr(decoded_comment))

\* lines 294-304
CommentOfText(decoded_comment) ==
    IF StartsWith(decoded_comment, <<123>>) /\ EndsWith(decoded_comment, <<125>>)
    THEN CommentOfJson(decoded_comment, JsonLoads(decoded_comment))
    ELSE Returns(PyStr(decoded_comment))

\* lines 284-307: every exception stays inside the attempt
ExifAttempt(img) ==
    IF img.format \notin {"JPEG", "WEBP"} THEN GoesOn
    ELSE IF img.exif.kind # "comment" THEN GoesOn
    ELSE CommentOfText(img.exif.text)

\* lines 311-312 for the outcome of the call
StealthOutcome(stealth_info) ==
    IF stealth_info.exc THEN Raises ELSE ReturnIfTrue(stealth_info.v)

\* lines 310-312
StealthAttempt(img) == StealthOutcome(StealthCall(img))
----------------------------------------------------------------------------
(* src/main.py: the classification task and the path arithmetic of the     *)
(* worker.  A path is the sequence of its components, each a string; a      *)
(* file is what read_info_from_image makes of it and whether it can be      *)
(* read at all.                                                             *)

\* r'<>:"/\\|?*': the characters sanitize_for_path replaces
illegal_chars == {60, 62, 58, 34, 47, 92, 124, 63, 42}

\* sanitize_for_path(name)
sanitize_for_path(name) ==
    [i \in 1..Len(name) |-> IF name[i] \in illegal_chars THEN 95 ELSE name[i]]

\* the result dict of process_single_image_task: its status and keyword
TaskResult(status, keyword) == [status |-> status, keyword |-> keyword]

\* the keywords of the list whose lower-cased form is in the lower-cased text
MatchingAt(text, keywords) ==
    {i \in 1..Len(keywords) : Contains(Lower(text), Lower(keywords[i]))}

\* the variant that takes the last matching keyword of the list
process_single_image_task_last(file, keywords) ==
    IF ~file.readable THEN TaskResult("error", <<>>)
    ELSE IF ~Truthy(file.prompt_data) THEN TaskResult("no_prompt", <<>>)
    ELSE IF Len(keywords) = 0 THEN TaskResult("no_keyword_match", <<>>)
    ELSE IF file.prompt_data.t # "str" THEN TaskResult("error", <<>>)
    ELSE IF MatchingAt(file.prompt_data.s, keywords) = {}
         THEN TaskResult("no_keyword_match", <<>>)
    ELSE TaskResult("success", keywords[MaxOf(MatchingAt(file.prompt_data.s, keywords))])

\* process_single_image_task(image_path, keywords) for the file at the path:
\* getsize raises for a file that cannot be read, prompt_data.lower() for a
\* prompt that is no string
process_single_image_task(file, keywords) ==
    IF ~file.readable THEN TaskResult("error", <<>>)
    ELSE IF ~Truthy(file.prompt_data) THEN TaskResult("no_prompt", <<>>)
    ELSE IF Len(keywords) = 0 THEN TaskResult("no_keyword_match", <<>>)
    ELSE IF file.prompt_data.t # "str" THEN TaskResult("error", <<>>)
    ELSE IF MatchingAt(file.prompt_data.s, keywords) = {}
         THEN TaskResult("no_keyword_match", <<>>)
    ELSE TaskResult("success", keywords[MinOf(MatchingAt(file.prompt_data.s, keywords))])

\* [p.strip() for p in prompt_string.split('|') if p.strip()]
KeywordsOf(prompt_string) ==
    SelectSeq([i \in 1..Len(SplitOn(prompt_string, 124)) |->
                 Strip(SplitOn(prompt_string, 124)[i])],
              LAMBDA p : Len(p) > 0)

\* os.path.join(directory, name), os.path.dirname(path), os.path.basename(path)
PathJoin(directory, name) == Append(directory, name)
DirName(path) == SubSeq(path, 1, Len(path) - 1)
BaseName(path) == path[Len(path)]

\* os.path.splitext(name): the extension starts at the last dot that is not
\* a leading one
ExtStart(name) ==
    LET dots == {i \in 2..Len(name) : name[i] = 46 /\ \E j \in 1..(i - 1) : name[j] # 46}
    IN IF dots = {} THEN Len(name) + 1 ELSE MaxOf(dots)
SplitExt(name) ==
    <<SubSeq(name, 1, ExtStart(name) - 1), SubSeq(name, ExtStart(name), Len(name))>>

\* str(n).zfill(width)
ZFill(n, width) ==
    [i \in 1..Max(width - Len(DigitsOf(n)), 0) |-> 48] \o DigitsOf(n)

\* f"{sanitized_keyword}_{str(counter).zfill(6)}{ext}"
RenamedFile(keyword, counter, img_file) ==
    sanitize_for_path(keyword) \o <<95>> \o ZFill(counter, 6) \o SplitExt(img_file)[2]

\* f"{base} ({str(counter).zfill(2)}){ext}" for the base and ext of a path
Suffixed(path, counter) ==
    PathJoin(DirName(path),
             SplitExt(BaseName(path))[1] \o <<32, 40>> \o ZFill(counter, 2) \o <<41>>
                 \o SplitExt(BaseName(path))[2])

----------------------------------------------------------------------------
(* The file system as the worker sees it *)

\* os.path.exists(path)
Exists(d, path) == path \in d.dirs \/ path \in DOMAIN d.files

\* file.lower().endswith(('.png', '.jpg', '.jpeg', '.webp'))
IsImageName(name) ==
    \E ext \in {<<46,112,110,103>>, <<46,106,112,103>>, <<46,106,112,101,103>>,
                <<46,119,101,98,112>>} : EndsWith(Lower(name), ext)

\* the (directory, file) pairs _collect_level_images finds, as paths
LevelImages(d, directories) ==
    {p \in DOMAIN d.files :
        /\ \E i \in 1..Len(directories) : DirName(p) = directories[i]
        /\ IsImageName(BaseName(p))}

\* os.listdir raises for a folder that is not there
ListDirRaises(d, directories) ==
    \E i \in 1..Len(directories) : directories[i] \notin d.dirs

\* the (root, file) pairs _find_all_image_files_recursive finds: os.walk
\* yields nothing for a folder that is not there
AllImages(d, directory) ==
    {p \in DOMAIN d.files :
        /\ directory \in d.dirs
        /\ Len(p) > Len(directory) /\ SubSeq(p, 1, Len(directory)) = directory
        /\ IsImageName(BaseName(p))}

\* os.makedirs(path, exist_ok=True)
MakeDirs(d, path) ==
    [d EXCEPT !.dirs = @ \cup {SubSeq(path, 1, k) : k \in 1..Len(path)}]

\* shutil.move(src, dest) and shutil.copy2(src, dest) for a file src
MoveFile(d, src, dest) ==
    [d EXCEPT !.files = [q \in (DOMAIN @ \ {src}) \cup {dest} |->
                            IF q = dest THEN @[src] ELSE @[q]]]
CopyFile(d, src, dest) ==
    [d EXCEPT !.files = [q \in DOMAIN @ \cup {dest} |-> IF q = dest THEN @[src] ELSE @[q]]]

\* os.remove(path), os.rmdir(path)
RemoveFile(d, path) == [d EXCEPT !.files = [q \in DOMAIN @ \ {path} |-> @[q]]]
RemoveDir(d, path) == [d EXCEPT !.dirs = @ \ {path}]

\* not os.listdir(path)
IsEmptyDir(d, path) ==
    /\ \A q \in DOMAIN d.files : DirName(q) # path
    /\ \A q \in d.dirs : q = path \/ Len(q) = 0 \/ DirName(q) # path

----------------------------------------------------------------------------
(* ImageClassifierWorker._process_image_file *)

\* target_dir
TargetDir(w, img_dir, keyword) ==
    IF w.custom_dest_enabled /\ w.custom_dest_path # <<>>
    THEN w.custom_dest_path
    ELSE PathJoin(img_dir, sanitize_for_path(keyword))

\* dest_path before conflicts are looked at; count is counters[keyword]
\* after the increment
FirstDestPath(w, img_path, keyword, count) ==
    PathJoin(TargetDir(w, DirName(img_path), keyword),
             IF w.rename_images THEN RenamedFile(keyword, count, BaseName(img_path))
             ELSE BaseName(img_path))

\* new_dest_path when the while loop ends: the suffix with the least counter
\* that does not exist
FreeSuffixed(d, path) ==
    Suffixed(path, MinOf({n \in 1..(Cardinality(DOMAIN d.files) + Cardinality(d.dirs) + 1) :
                             ~Exists(d, Suffixed(path, n))}))

\* the variant that writes to the first destination whatever is there
DestPath_overwrite(w, d, path) == path

\* dest_path after the conflict is resolved
DestPath(w, d, path) ==
    IF Exists(d, path) /\ w.resolve_conflicts THEN FreeSuffixed(d, path) ELSE path

\* what one call does: "skip" (return None before the operation), "fail"
\* (the operation raised), "move" or "copy"
Did(w, d, img_path, path, operation_type) ==
    IF Exists(d, path) /\ ~w.resolve_conflicts THEN "skip"
    ELSE IF img_path \notin DOMAIN d.files THEN "fail"
    ELSE operation_type

\* the file system after the call
DiskAfter(w, d, img_path, keyword, count, operation_type) ==
    IF Did(w, d, img_path, FirstDestPath(w, img_path, keyword, count), operation_type) = "move"
    THEN MoveFile(MakeDirs(d, TargetDir(w, DirName(img_path), keyword)), img_path,
                  DestPath(w, d, FirstDestPath(w, img_path, keyword, count)))
    ELSE IF Did(w, d, img_path, FirstDestPath(w, img_path, keyword, count), operation_type)
                = "copy"
    THEN CopyFile(MakeDirs(d, TargetDir(w, DirName(img_path), keyword)), img_path,
                  DestPath(w, d, FirstDestPath(w, img_path, keyword, count)))
    ELSE MakeDirs(d, TargetDir(w, DirName(img_path), keyword))

\* what the call does, and the dest_path it does it to
DidCall(w, d, img_path, keyword, count, operation_type) ==
    Did(w, d, img_path, FirstDestPath(w, img_path, keyword, count), operation_type)
DestCall(w, d, img_path, keyword, count) ==
    DestPath(w, d, FirstDestPath(w, img_path, keyword, count))

\* the entries of processed_files_info and undo_info
FileInfo(src, dest) == [src |-> src, dest |-> dest]
UndoInfo(src, dest, op) == [src |-> src, dest |-> dest, op |-> op]

\* the fields of the worker after the call
WorkerAfter(w, d, img_path, keyword, count, operation_type) ==
    [w EXCEPT
        !.created_dirs =
            IF Exists(d, TargetDir(w, DirName(img_path), keyword)) THEN @
            ELSE Append(@, TargetDir(w, DirName(img_path), keyword)),
        !.processed_files_info =
            IF DidCall(w, d, img_path, keyword, count, operation_type) \in {"move", "copy"}
            THEN Append(@, FileInfo(img_path, DestCall(w, d, img_path, keyword, count)))
            ELSE @,
        !.undo_info =
            IF /\ DidCall(w, d, img_path, keyword, count, operation_type) \in {"move", "copy"}
               /\ ~w.safe_mode_enabled
            THEN Append(@, UndoInfo(img_path, DestCall(w, d, img_path, keyword, count),
                                    operation_type))
            ELSE @]

\* the return value of the call: target_dir, or None (the empty path)
ReturnedDir(w, d, img_path, keyword, count, operation_type) ==
    IF DidCall(w, d, img_path, keyword, count, operation_type) \in {"move", "copy"}
    THEN TargetDir(w, DirName(img_path), keyword)
    ELSE <<>>

\* counters[keyword] when dest_filename is made
Counted(w, counter) == IF w.rename_images THEN counter + 1 ELSE counter

----------------------------------------------------------------------------
(* finalize_safe_mode and undo_last_operation *)

RECURSIVE RemoveEach(_, _)
\* for each path: if os.path.exists(path): os.remove(path), which raises
\* for a folder
RemoveEach(d, paths) ==
    IF paths = <<>> THEN d
    ELSE RemoveEach(IF paths[1] \in DOMAIN d.files THEN RemoveFile(d, paths[1]) ELSE d,
                    Tail(paths))

\* the body of the loop of undo_last_operation for one record
UndoOne(d, info) ==
    IF info.dest \notin DOMAIN d.files THEN d
    ELSE IF info.op = "move" THEN MoveFile(MakeDirs(d, DirName(info.src)), info.dest, info.src)
    ELSE RemoveFile(d, info.dest)

RECURSIVE UndoReplay_forward(_, _)
\* the variant that replays the records in the order of execution
UndoReplay_forward(d, infos) ==
    IF infos = <<>> THEN d
    ELSE UndoReplay_forward(UndoOne(d, infos[1]), Tail(infos))

RECURSIVE UndoReplay(_, _)
\* for info in reversed(self.undo_info)
UndoReplay(d, infos) ==
    IF infos = <<>> THEN d
    ELSE UndoReplay(UndoOne(d, infos[Len(infos)]), SubSeq(infos, 1, Len(infos) - 1))

RECURSIVE RemoveEmptyDirs(_, _)
\* for dir_path in reversed(self.created_dirs): rmdir if it is there and empty
RemoveEmptyDirs(d, dirs) ==
    IF dirs = <<>> THEN d
    ELSE RemoveEmptyDirs(IF dirs[Len(dirs)] \in d.dirs /\ IsEmptyDir(d, dirs[Len(dirs)])
                         THEN RemoveDir(d, dirs[Len(dirs)]) ELSE d,
                         SubSeq(dirs, 1, Len(dirs) - 1))
----------------------------------------------------------------------------
(* The images under scan: a payload embedded by the inverse of the reader *)

\* the characters of the plaintext payloads: 'a' and U+00E9 (two bytes)
Alphabet == {97, 233}

RECURSIVE SeqsUpTo(_, _)
SeqsUpTo(S, n) ==
    IF n = 0 THEN {<<>>}
    ELSE LET shorter == SeqsUpTo(S, n - 1)
         IN shorter \cup {Append(t, c) : t \in {u \in shorter : Len(u) = n - 1}, c \in S}

Texts == SeqsUpTo(Alphabet, MaxTextLen)

\* format(n, '0<width>b')
RECURSIVE BitsOfInt(_, _)
BitsOfInt(n, width) ==
    IF width = 0 THEN <<>> ELSE BitsOfInt(n \div 2, width - 1) \o <<n % 2>>

BitsOfBytes(bytes) ==
    [i \in 1..(8 * Len(bytes)) |-> BitsOfInt(bytes[((i - 1) \div 8) + 1], 8)[((i - 1) % 8) + 1]]

\* str.encode('utf-8') for code points below U+10000
RECURSIVE Utf8Encode(_)
Utf8Encode(text) ==
    IF Len(text) = 0 THEN <<>>
    ELSE LET c == text[1]
             head == IF c < 128 THEN <<c>>
                     ELSE IF c < 2048 THEN <<192 + (c \div 64), 128 + (c % 64)>>
                     ELSE <<224 + (c \div 4096), 128 + ((c \div 64) % 64), 128 + (c % 64)>>
         IN head \o Utf8Encode(Tail(text))

\* the stream GzipDecompress reads back
GzipCompress(data) == GzipMagic \o <<Len(data)>> \o data \o <<ByteSum(data) % 256>>

PayloadBytes(in) ==
    IF in.comp THEN GzipCompress(Utf8Encode(in.text)) ELSE Utf8Encode(in.text)

\* the signature an encoder writes for a channel and a compression
SignatureOf(chan, comp) ==
    IF chan = "alpha" THEN (IF comp THEN stealth_pngcomp ELSE stealth_pnginfo)
    ELSE (IF comp THEN stealth_rgbcomp ELSE stealth_rgbinfo)

\* the signature bits with bit number flip inverted (0: none)
SigStream(in) ==
    LET bits == BitsOfBytes(in.sig)
    IN [i \in 1..Len(bits) |-> IF i = in.flip THEN 1 - bits[i] ELSE bits[i]]

\* signature, 32-bit length, payload
Stream(in) ==
    SigStream(in) \o BitsOfInt(in.declared, 32) \o BitsOfBytes(PayloadBytes(in))

\* pixels a stream needs in a channel mode
PixelsFor(chan, nbits) == IF chan = "alpha" THEN nbits ELSE (nbits + 2) \div 3

\* the narrowest image of height ImgHeight with a spare pixel after the stream
FitWidth(in) == (PixelsFor(in.chan, Len(Stream(in))) \div ImgHeight) + 1

SetLsb(v, bit) == (v \div 2) * 2 + bit

\* the image: every channel of the cover holds 254 + cover; the stream is
\* written to the low bits in the order the reader scans (x outer, y inner)
Embed(in) ==
    LET stream == Stream(in)
        base == 254 + in.cover
        bit(k) == IF k <= Len(stream) THEN stream[k] ELSE in.cover
        pix(x, y) ==
            LET k == x * ImgHeight + y
            IN IF in.chan = "alpha"
               THEN <<base, base, base, SetLsb(base, bit(k + 1))>>
               ELSE LET rgb == <<SetLsb(base, bit(3 * k + 1)), SetLsb(base, bit(3 * k + 2)),
                                 SetLsb(base, bit(3 * k + 3))>>
                    IN IF in.mode = "RGBA" THEN rgb \o <<base>> ELSE rgb
    IN [mode |-> in.mode, width |-> in.width, height |-> ImgHeight,
        pixels |-> [c \in (0..(in.width - 1)) \X (0..(ImgHeight - 1)) |-> pix(c[1], c[2])]]

Chans == {"alpha", "rgb"}
ModeOf(chan) == IF chan = "alpha" THEN "RGBA" ELSE "RGB"

\* an encoder's image of a text: matching signature, true length, room enough
HonestInput(chan, comp, text, cover) ==
    LET in0 == [chan |-> chan, mode |-> ModeOf(chan), sig |-> SignatureOf(chan, comp),
                flip |-> 0, comp |-> comp, text |-> text, declared |-> 0,
                cover |-> cover, width |-> 1]
        in1 == [in0 EXCEPT !.declared = 8 * Len(PayloadBytes(in0))]
    IN [in1 EXCEPT !.width = FitWidth(in1)]

Honest(in) == in = HonestInput(in.chan, in.comp, in.text, in.cover)

HonestInputs ==
    {HonestInput(chan, comp, text, cover) :
        chan \in Chans, comp \in BOOLEAN, text \in Texts, cover \in {0, 1}}

\* a damaged signature: one bit inverted, or the signature of the other
\* channel mode, or an RGB-channel stream in an image that has an alpha channel
FlipBits == {1, 60, 120}
BadSigInputs ==
    LET hs == {HonestInput(chan, comp, <<97>>, cover) :
                 chan \in Chans, comp \in BOOLEAN, cover \in {0, 1}}
    IN {[h EXCEPT !.flip = f] : h \in hs, f \in FlipBits}
       \cup {[h EXCEPT !.sig = SignatureOf(IF h.chan = "alpha" THEN "rgb" ELSE "alpha",
                                           h.comp)] : h \in hs}
       \cup {[h EXCEPT !.mode = "RGBA"] : h \in {g \in hs : g.chan = "rgb"}}

\* any declared length up to MaxDeclared, or one no image of the model can
\* hold (2^30 bits), in front of the 24 payload bits of 'a' U+00E9
FreeLenInputs ==
    {[HonestInput(chan, FALSE, <<97, 233>>, cover) EXCEPT !.declared = d] :
        chan \in Chans, cover \in {0, 1}, d \in (0..MaxDeclared) \cup {Pow2(30)}}

\* an image too narrow for its stream
ShortInputs ==
    LET hs == {HonestInput(chan, FALSE, <<97>>, 0) : chan \in Chans}
    IN UNION {{[h EXCEPT !.width = w] : w \in 1..(FitWidth(h) - 1)} : h \in hs}

Inputs == HonestInputs \cup BadSigInputs \cup FreeLenInputs \cup ShortInputs

----------------------------------------------------------------------------
(* The images the orchestrator is run on *)

T_a_cat == <<97,32,99,97,116>>   \* 'a cat'
T_padded == <<32,97,32,99,97,116,10>>   \* ' a cat\n'
T_bad == <<98,97,100>>   \* 'bad'
T_x == <<120>>   \* 'x'
T_webui == <<97,32,100,111,103,10,78,101,103,97,116,105,118,101,32,112,114,111,109,112,116,58,32,98,108,117,114,114,121,10,83,116,101,112,115,58,32,50,48>>   \* 'a dog\nNegative prompt: blurry\nSteps: 20'
T_plain == <<97,32,100,111,103>>   \* 'a dog'
T_plain_prompt == <<97,32,112,114,111,109,112,116>>   \* 'a prompt'
T_sunset == <<115,117,110,115,101,116>>   \* 'sunset'
T_ocean == <<111,99,101,97,110>>   \* 'ocean'
T_c == <<99>>   \* 'c'
K_1 == <<49>>   \* '1'
K_2 == <<50>>   \* '2'
K_3 == <<51>>   \* '3'
V_KSampler == <<75,83,97,109,112,108,101,114>>   \* 'KSampler'

\* the nested objects a Tool-A wrapper holds: the prompt is clean, padded
\* with white space, a number or missing; one has a number as its uc
NestedObjects ==
    {PyDict(<<Entry(K_prompt, PyStr(T_a_cat))>>),
     PyDict(<<Entry(K_prompt, PyStr(T_padded)), Entry(K_uc, PyStr(T_bad))>>),
     PyDict(<<Entry(K_prompt, PyInt(5))>>),
     PyDict(<<Entry(K_prompt, PyStr(T_a_cat)), Entry(K_uc, PyInt(7))>>),
     PyDict(<<>>)}

\* a choice for a text field: absent, a Tool-A wrapper around a nested
\* object (with a 'parameters' key beside 'Comment' or not), or a plain text
Absent == [kind |-> "absent", nested |-> PyNone, params |-> FALSE, text |-> <<>>]
Wrap(nested, params) == [kind |-> "wrap", nested |-> nested, params |-> params, text |-> <<>>]
Plain(text) == [kind |-> "text", nested |-> PyNone, params |-> FALSE, text |-> text]

Wraps == {Wrap(n, p) : n \in NestedObjects, p \in BOOLEAN}

\* the text of a choice, written as json.dumps writes it
TextOf(choice) ==
    IF choice.kind = "wrap"
    THEN JsonDumps(PyDict(<<Entry(K_Comment, PyStr(JsonDumps(choice.nested).s))>>
                          \o (IF choice.params
                              THEN <<Entry(K_parameters, PyStr(T_x))>> ELSE <<>>))).s
    ELSE choice.text

\* a node graph: two text encoders and a sampler
TwoEncoders ==
    PyDict(<<Entry(K_1, PyDict(<<Entry(K_class_type, PyStr(V_CLIPTextEncode)),
                                 Entry(K_inputs, PyDict(<<Entry(K_text, PyStr(T_sunset))>>))>>)),
             Entry(K_2, PyDict(<<Entry(K_class_type, PyStr(V_KSampler)),
                                 Entry(K_inputs, PyDict(<<Entry(K_text, PyInt(1))>>))>>)),
             Entry(K_3, PyDict(<<Entry(K_class_type, PyStr(V_CLIPTextEncode)),
                                 Entry(K_inputs, PyDict(<<Entry(K_text, PyStr(T_ocean))>>))>>))>>)

\* a node graph with a node that is no mapping
BrokenGraph ==
    PyDict(<<Entry(K_1, PyDict(<<Entry(K_class_type, PyStr(V_CLIPTextEncode)),
                                 Entry(K_inputs, PyDict(<<Entry(K_text, PyStr(T_sunset))>>))>>)),
             Entry(K_2, PyInt(5))>>)

\* a JSON UserComment with a 'comment' field
CommentJson == JsonDumps(PyDict(<<Entry(K_comment, PyStr(T_c))>>)).s

CommentChoices == {Absent} \cup Wraps
ParametersChoices == {Absent, Plain(T_webui), Plain(T_plain), Plain(T_plain_prompt)}
GraphChoices == {Absent, Plain(JsonDumps(TwoEncoders).s), Plain(JsonDumps(BrokenGraph).s)}
ExifChoices ==
    {[kind |-> k, choice |-> Absent] : k \in {"absent", "bad", "nocomment", "badcomment"}}
    \cup {[kind |-> "comment", choice |-> ch] :
            ch \in {Plain(CommentJson), Plain(T_plain),
                    Wrap(PyDict(<<Entry(K_prompt, PyStr(T_a_cat))>>), TRUE)}}

\* the pixels: no stealth data in RGB or RGBA, a greyscale image, or a
\* stealth text in the RGB channels
T_ab == <<97, 98>>
T_a_fox == <<97,32,102,111,120>>   \* 'a fox'
PixChoices == {"RGB", "RGBA", "L", "stealth", "stealth_wrap"}

\* what the pixels hold: nothing, the text 'ab', or a Tool-A wrapper
StealthChoice(pix) ==
    IF pix = "stealth" THEN Plain(T_ab)
    ELSE IF pix = "stealth_wrap" THEN Wrap(PyDict(<<Entry(K_prompt, PyStr(T_a_fox))>>), FALSE)
    ELSE Absent
Formats == {"PNG", "JPEG", "WEBP"}

\* the metadata sources an input carries (plain RGB pixels are none)
SourceCount(src) ==
    Cardinality({f \in {"comment", "parameters", "graph"} : src[f].kind # "absent"})
    + (IF src.exif.kind # "absent" THEN 1 ELSE 0)
    + (IF src.pix # "RGB" THEN 1 ELSE 0)

ReadInputs ==
    {src \in [format : Formats, comment : CommentChoices, parameters : ParametersChoices,
              graph : GraphChoices, exif : ExifChoices, pix : PixChoices] :
        SourceCount(src) <= MaxSources}

\* the info map of an input, in the order a writer stores the fields
InfoOf(src) ==
    PyDict((IF src.comment.kind = "absent" THEN <<>>
            ELSE <<Entry(K_Comment, PyStr(TextOf(src.comment)))>>)
        \o (IF src.parameters.kind = "absent" THEN <<>>
            ELSE <<Entry(K_parameters, PyStr(TextOf(src.parameters)))>>)
        \o (IF src.graph.kind = "absent" THEN <<>>
            ELSE <<Entry(K_prompt, PyStr(TextOf(src.graph)))>>)
        \o (IF src.exif.kind = "absent" THEN <<>>
            ELSE <<Entry(K_exif, PyBytes)>>))

PixelsOfChoice(pix) ==
    IF StealthChoice(pix).kind # "absent"
    THEN Embed(HonestInput("rgb", FALSE, TextOf(StealthChoice(pix)), 0))
    ELSE [mode |-> pix, width |-> 1, height |-> ImgHeight,
          pixels |-> [p \in (0..0) \X (0..(ImgHeight - 1)) |->
                        IF pix = "RGB" THEN <<254, 254, 254>>
                        ELSE IF pix = "RGBA" THEN <<254, 254, 254, 254>>
                        ELSE 254]]

\* the image with the pixels px
ImageWith(src, px) ==
    [format |-> src.format, info |-> InfoOf(src),
     exif |-> [kind |-> src.exif.kind, text |-> TextOf(src.exif.choice)],
     mode |-> px.mode, width |-> px.width, height |-> px.height, pixels |-> px.pixels]

\* the image of an input
BuildImage(src) == ImageWith(src, PixelsOfChoice(src.pix))
----------------------------------------------------------------------------
(* The texts and mappings the dialect parsers are run on *)

L_a_dog == <<97,32,100,111,103>>   \* 'a dog'
L_negative == <<78,101,103,97,116,105,118,101,32,112,114,111,109,112,116,58,32,98,108,117,114,114,121>>   \* 'Negative prompt: blurry'
L_indented == <<32,32,78,101,103,97,116,105,118,101,32,112,114,111,109,112,116,58,32,120>>   \* '  Negative prompt: x'
L_steps == <<83,116,101,112,115,58,32,50,48>>   \* 'Steps: 20'
L_synonyms == <<67,70,71,32,115,99,97,108,101,58,32,55,46,53,44,32,67,108,105,112,32,115,107,105,112,58,32,50>>   \* 'CFG scale: 7.5, Clip skip: 2'
L_mixed == <<99,102,103,95,115,99,97,108,101,58,32,51,44,32,104,105,114,101,115,44,32,77,111,100,101,108,32,104,97,115,104,58,32,97,98>>   \* 'cfg_scale: 3, hires, Model hash: ab'

\* the lines a parameter block is made of
BlockLines == {L_a_dog, L_negative, L_indented, L_steps, L_synonyms, L_mixed}

\* the parameter blocks: up to MaxLines lines
Blocks == UNION {[1..n -> BlockLines] : n \in 1..MaxLines}

K_steps == <<115,116,101,112,115>>   \* 'steps'
K_scale == <<115,99,97,108,101>>   \* 'scale'
K_cfg_scale_sp == <<99,102,103,32,115,99,97,108,101>>   \* 'cfg scale'
K_cfg_scale == <<99,102,103,95,115,99,97,108,101>>   \* 'cfg_scale'
K_clip_skip_sp == <<99,108,105,112,32,115,107,105,112>>   \* 'clip skip'
K_clip_skip == <<99,108,105,112,95,115,107,105,112>>   \* 'clip_skip'
K_foo == <<102,111,111>>   \* 'foo'
T_n == <<32,110,32>>   \* ' n '

\* the entries a nested object is put together from: a prompt, a uc, a
\* negative_prompt, option keys (canonical ones and synonyms) and another key
PromptEntries ==
    {<<>>, <<Entry(K_prompt, PyStr(T_a_cat))>>, <<Entry(K_prompt, PyStr(T_padded))>>,
     <<Entry(K_prompt, PyNone)>>, <<Entry(K_prompt, PyInt(0))>>, <<Entry(K_prompt, PyInt(5))>>}
UcEntries ==
    {<<>>, <<Entry(K_uc, PyStr(T_bad))>>, <<Entry(K_uc, PyNone)>>, <<Entry(K_uc, PyInt(7))>>}
NegativeEntries == {<<>>, <<Entry(K_negative_prompt, PyStr(T_n))>>}
OptionEntries ==
    {<<>>, <<Entry(K_steps, PyInt(20))>>, <<Entry(K_cfg_scale_sp, PyInt(7))>>,
     <<Entry(K_cfg_scale, PyNone), Entry(K_scale, PyInt(5))>>,
     <<Entry(K_clip_skip, PyInt(1)), Entry(K_clip_skip_sp, PyInt(2))>>}
OtherEntries == {<<>>, <<Entry(K_foo, PyStr(T_x))>>}

NestedMappings ==
    {PyDict(p \o u \o n \o o \o x) :
        p \in PromptEntries, u \in UcEntries, n \in NegativeEntries,
        o \in OptionEntries, x \in OtherEntries}

\* what a dialect parser is given: the lines of a parameter block (its text
\* is the lines joined by newlines), or the nested object of a Tool-A
\* wrapper (its text is written by json.dumps)
GivenNothing == [kind |-> "nothing", lines |-> <<>>, obj |-> PyNone, asText |-> TRUE]
GivenBlock(ls) == [kind |-> "block", lines |-> ls, obj |-> PyNone, asText |-> TRUE]
GivenNested(m) == [kind |-> "nested", lines |-> <<>>, obj |-> m, asText |-> TRUE]

\* the nodes a graph is made of: two text encoders, a text encoder whose
\* text is a number, a sampler with a text, a text encoder without inputs,
\* a node that is no mapping, a text encoder whose inputs is a number
EncoderNode(text) ==
    PyDict(<<Entry(K_class_type, PyStr(V_CLIPTextEncode)),
             Entry(K_inputs, PyDict(<<Entry(K_text, text)>>))>>)
GraphNodes ==
    {EncoderNode(PyStr(T_sunset)), EncoderNode(PyStr(T_ocean)), EncoderNode(PyInt(1)),
     PyDict(<<Entry(K_class_type, PyStr(V_KSampler)),
              Entry(K_inputs, PyDict(<<Entry(K_text, PyStr(T_c))>>))>>),
     PyDict(<<Entry(K_class_type, PyStr(V_CLIPTextEncode))>>),
     PyInt(5),
     PyDict(<<Entry(K_class_type, PyStr(V_CLIPTextEncode)), Entry(K_inputs, PyInt(7))>>)}

\* the node ids, in the order of the nodes
NodeIds == <<K_1, K_2, K_3>>

\* the node graphs: up to MaxNodes nodes (MaxNodes is at most 3)
NodeGraphs ==
    {PyDict([i \in 1..Len(ns) |-> Entry(NodeIds[i], ns[i])]) :
        ns \in UNION {[1..n -> GraphNodes] : n \in 0..MaxNodes}}

GivenGraph(g, asText) ==
    [kind |-> "graph", lines |-> <<>>, obj |-> g, asText |-> asText]

DialectInputs ==
    {GivenBlock(ls) : ls \in Blocks} \cup {GivenNested(m) : m \in NestedMappings}
    \cup {GivenGraph(g, b) : g \in NodeGraphs, b \in BOOLEAN}

\* the text of an input
GivenText(g) == IF g.kind = "block" THEN Join(g.lines, <<10>>) ELSE JsonDumps(g.obj).s

\* the info map that holds a node graph in its 'prompt' field, as the text
\* json.dumps writes or as the mapping itself
GraphInfo(g) ==
    PyDict(<<Entry(K_prompt, IF g.asText THEN PyStr(GivenText(g)) ELSE g.obj)>>)

\* the variables of the dialect pipeline while it does not run
DialectIdle ==
    /\ given = GivenNothing
    /\ exifdict = PyNone
    /\ naidict = PyNone
    /\ comfyui_prompt = PyNone
    /\ stage = "idle"
----------------------------------------------------------------------------
(* The folders, files and settings the worker is run on *)

W_cat == <<99,97,116>>   \* 'cat'
W_dog == <<100,111,103>>   \* 'dog'
W_other == <<111,116,104,101,114>>   \* 'other'
W_cat_dog == <<99,97,116,124,100,111,103>>   \* 'cat|dog'
W_Dog == <<68,111,103>>   \* 'Dog'
W_dog_cat == <<32,100,111,103,32,124,99,97,116>>   \* ' dog |cat'
W_blank == <<32,32>>   \* '  '
P_Cat_dog == <<67,97,116,32,100,111,103>>   \* 'Cat dog'
P_hotdog == <<104,111,116,100,111,103>>   \* 'hotdog'
D_src == <<115,114,99>>   \* 'src'
D_out == <<111,117,116>>   \* 'out'
F_a == <<97,46,112,110,103>>   \* 'a.png'
F_b == <<98,46,80,78,71>>   \* 'b.PNG'
F_n == <<110,46,106,112,103>>   \* 'n.jpg'
F_e == <<101,46,119,101,98,112>>   \* 'e.webp'
F_t == <<116,46,116,120,116>>   \* 't.txt'
F_a_01 == <<97,32,40,48,49,41,46,112,110,103>>   \* 'a (01).png'
F_cat_1 == <<99,97,116,95,48,48,48,48,48,49,46,112,110,103>>   \* 'cat_000001.png'

\* most images of the source folder
MaxImages == 2
\* most settings switched on
MaxOptions == 2

\* what a file is to the task: whether it can be read and what
\* read_info_from_image returns for it (a number for the EXIF comment
\* {"comment": 5})
ImageFile(id) ==
    IF id = "A" THEN [readable |-> TRUE, prompt_data |-> PyStr(P_Cat_dog)]
    ELSE IF id = "B" THEN [readable |-> TRUE, prompt_data |-> PyStr(P_hotdog)]
    ELSE IF id = "N" THEN [readable |-> TRUE, prompt_data |-> PyStr(<<>>)]
    ELSE IF id = "E" THEN [readable |-> TRUE, prompt_data |-> PyInt(5)]
    ELSE [readable |-> TRUE, prompt_data |-> PyStr(W_dog)]

\* the images the source folder is filled from, each under its name
SourceImages == {<<F_a, "A">>, <<F_b, "B">>, <<F_n, "N">>, <<F_e, "E">>}

\* the files that are in the way of a classification: in the folder of the
\* keyword 'cat', in the custom destination and, no image, in the source
TakenNames == <<{}, {F_a, F_cat_1}, {F_a, F_cat_1, F_a_01}>>

\* a file system: its folders and the file at each path
Disk(dirs, files) == [dirs |-> dirs, files |-> files]

Layout(images, taken) ==
    Disk({<<D_src>>} \cup (IF taken = {} THEN {} ELSE {<<D_src, W_cat>>, <<D_out>>}),
         [p \in {<<D_src, im[1]>> : im \in images}
                \cup {<<D_src, W_cat, name>> : name \in taken}
                \cup {<<D_out, name>> : name \in taken}
                \cup (IF taken = {} THEN {} ELSE {<<D_src, F_t>>}) |->
            IF Len(p) = 2 /\ p[1] = D_src /\ p[2] # F_t
            THEN (CHOOSE im \in images : im[1] = p[2])[2]
            ELSE IF p[2] = F_t THEN "T"
            ELSE IF p[1] = D_out THEN "Y" ELSE "X"])

\* the file systems a run starts on; in the last one the source folder is
\* not there
Layouts ==
    {Layout(images, TakenNames[k]) :
        images \in {s \in SUBSET SourceImages : Cardinality(s) <= MaxImages},
        k \in 1..Len(TakenNames)}
    \cup {Disk({}, [p \in {} |-> "T"])}

\* prompt_levels: (enabled, prompt_string) per level
Level(enabled, prompt_string) == [enabled |-> enabled, prompt_string |-> prompt_string]
LevelLists ==
    {<<Level(TRUE, W_cat_dog), Level(TRUE, W_Dog)>>,
     <<Level(FALSE, W_cat), Level(TRUE, W_dog_cat)>>,
     <<Level(TRUE, W_cat), Level(TRUE, W_blank), Level(TRUE, W_dog)>>,
     <<Level(TRUE, <<>>), Level(TRUE, W_dog)>>}

\* the arguments of ImageClassifierWorker(...)
WorkerSettings ==
    {c \in [source_dir : {<<D_src>>},
            prompt_levels : LevelLists,
            rename_images : BOOLEAN,
            handle_others : BOOLEAN,
            resolve_conflicts : BOOLEAN,
            full_tracking_enabled : BOOLEAN,
            full_tracking_prompt : {<<>>, W_cat_dog},
            custom_dest_enabled : BOOLEAN,
            custom_dest_path : {<<D_out>>},
            safe_mode_enabled : BOOLEAN,
            clone_mode_enabled : BOOLEAN] :
        /\ Cardinality({k \in {"rename_images", "handle_others", "resolve_conflicts",
                                "full_tracking_enabled", "custom_dest_enabled",
                                "safe_mode_enabled", "clone_mode_enabled"} : c[k]})
               <= MaxOptions
        /\ c.full_tracking_enabled =>
               c.prompt_levels = <<Level(TRUE, W_cat_dog), Level(TRUE, W_Dog)>>
        /\ ~c.full_tracking_enabled => c.full_tracking_prompt = <<>>}

\* no worker is constructed
WorkerIdle ==
    /\ worker = PyNone
    /\ job = PyNone
    /\ disk = Disk({}, [p \in {} |-> "T"])
    /\ disk0 = disk
    /\ emitted = <<>>
    /\ oplog = <<>>
----------------------------------------------------------------------------
(* src/settings_manager.py: the settings dicts.  The list of prompt levels  *)
(* made by _get_default_settings is an object of the heap; a dict that      *)
(* holds it holds a reference to it.                                        *)

K_source_directory == <<115,111,117,114,99,101,95,100,105,114,101,99,116,111,114,121>>   \* 'source_directory'
K_rename_images == <<114,101,110,97,109,101,95,105,109,97,103,101,115>>   \* 'rename_images'
K_handle_others == <<104,97,110,100,108,101,95,111,116,104,101,114,115>>   \* 'handle_others'
K_resolve_conflicts == <<114,101,115,111,108,118,101,95,99,111,110,102,108,105,99,116,115>>   \* 'resolve_conflicts'
K_prompt_levels == <<112,114,111,109,112,116,95,108,101,118,101,108,115>>   \* 'prompt_levels'
K_full_tracking_enabled == <<102,117,108,108,95,116,114,97,99,107,105,110,103,95,101,110,97,98,108,101,100>>   \* 'full_tracking_enabled'
K_full_tracking_prompt == <<102,117,108,108,95,116,114,97,99,107,105,110,103,95,112,114,111,109,112,116>>   \* 'full_tracking_prompt'
K_custom_dest_enabled == <<99,117,115,116,111,109,95,100,101,115,116,95,101,110,97,98,108,101,100>>   \* 'custom_dest_enabled'
K_custom_dest_path == <<99,117,115,116,111,109,95,100,101,115,116,95,112,97,116,104>>   \* 'custom_dest_path'
K_enabled == <<101,110,97,98,108,101,100>>   \* 'enabled'
T_notes == <<123>>   \* '{', no JSON
N_preset == <<112>>   \* 'p', the name of a preset

\* a reference to the object of the heap with that number
PyRef(id) == [t |-> "ref", s |-> <<>>, n |-> id, o |-> <<>>]

\* {"enabled": enabled, "prompt": prompt}
LevelDict(enabled, prompt) ==
    PyDict(<<Entry(K_enabled, PyBool(enabled)), Entry(K_prompt, PyStr(prompt))>>)

\* the list of the five levels of _get_default_settings
FactoryLevels ==
    PyList(<<LevelDict(TRUE, <<>>), LevelDict(FALSE, <<>>), LevelDict(FALSE, <<>>),
             LevelDict(FALSE, <<>>), LevelDict(FALSE, <<>>)>>)

\* the dict of _get_default_settings, with that value as its prompt_levels
DefaultSettingsWith(levels) ==
    PyDict(<<Entry(K_source_directory, PyStr(<<>>)),
             Entry(K_rename_images, PyBool(FALSE)),
             Entry(K_handle_others, PyBool(FALSE)),
             Entry(K_resolve_conflicts, PyBool(FALSE)),
             Entry(K_prompt_levels, levels),
             Entry(K_full_tracking_enabled, PyBool(FALSE)),
             Entry(K_full_tracking_prompt, PyStr(<<>>)),
             Entry(K_custom_dest_enabled, PyBool(FALSE)),
             Entry(K_custom_dest_path, PyStr(<<>>))>>)

\* _get_default_settings(): the dict, its list being the first object of
\* the heap
_get_default_settings == DefaultSettingsWith(PyRef(1))

\* the dict with the objects of the heap in the place of the references
Deref(h, d) ==
    [d EXCEPT !.o = [i \in 1..Len(@) |->
                        IF @[i].v.t = "ref" THEN Entry(@[i].k, h[@[i].v.n]) ELSE @[i]]]

\* the keys _validate_settings copies and the type each must have
ScalarKeys ==
    <<<<K_source_directory, "str">>, <<K_rename_images, "bool">>,
      <<K_handle_others, "bool">>, <<K_resolve_conflicts, "bool">>,
      <<K_full_tracking_enabled, "bool">>, <<K_full_tracking_prompt, "str">>,
      <<K_custom_dest_enabled, "bool">>, <<K_custom_dest_path, "str">>>>

RECURSIVE CopyScalars(_, _, _)
\* validated after the tests of lines 103-113 and 126-135 for the keys
CopyScalars(validated, settings, keys) ==
    IF keys = <<>> THEN validated
    ELSE CopyScalars(IF /\ DictHas(settings, keys[1][1])
                        /\ DictGet(settings, keys[1][1]).t = keys[1][2]
                     THEN DictSet(validated, keys[1][1], DictGet(settings, keys[1][1]))
                     ELSE validated,
                     settings, Tail(keys))

\* validated["prompt_levels"][i] after lines 119-123 for the level given
LevelAfter(level, g) ==
    IF g.t # "dict" THEN level
    ELSE CopyScalars(level, g, <<<<K_enabled, "bool">>, <<K_prompt, "str">>>>)

\* the list validated["prompt_levels"] after the loop of lines 116-123
LevelsAfter(levels, g) ==
    IF g.t # "list" THEN levels
    ELSE [levels EXCEPT !.o = [i \in 1..Len(@) |->
                                  IF i <= Len(g.o)
                                  THEN Entry(<<>>, LevelAfter(@[i].v, g.o[i].v))
                                  ELSE @[i]]]

\* settings["prompt_levels"], a reference followed; None if there is none
GivenLevels(h, settings) ==
    IF ~DictHas(settings, K_prompt_levels) THEN PyNone
    ELSE IF DictGet(settings, K_prompt_levels).t = "ref"
    THEN h[DictGet(settings, K_prompt_levels).n]
    ELSE DictGet(settings, K_prompt_levels)

\* _validate_settings(settings): the dict it returns is a shallow copy of
\* default_settings, so its prompt_levels is the list of default_settings,
\* and the loop writes to the dicts of that list
ValidatedDict(default_settings, settings) ==
    CopyScalars(default_settings, settings, ScalarKeys)
HeapAfterValidate(h, default_settings, settings) ==
    [h EXCEPT ![DictGet(default_settings, K_prompt_levels).n] =
                  LevelsAfter(@, GivenLevels(h, settings))]

\* create_settings_from_ui(...) for the levels and the source folder of the
\* UI, the other widgets as they are at the start
create_settings_from_ui(source_dir, prompt_levels) ==
    DictSet(DefaultSettingsWith(PyList([i \in 1..Len(prompt_levels) |->
                                          LevelDict(prompt_levels[i].enabled,
                                                    prompt_levels[i].prompt_string)])),
            K_source_directory, PyStr(source_dir))

\* the levels of the UI
UiLevels ==
    <<<<Level(FALSE, W_cat), Level(TRUE, W_dog), Level(FALSE, <<>>), Level(FALSE, <<>>),
       Level(FALSE, <<>>)>>,
      <<Level(TRUE, <<>>), Level(FALSE, <<>>), Level(FALSE, <<>>), Level(FALSE, <<>>),
        Level(TRUE, W_cat)>>>>

\* the dicts save_settings and save_preset are called with: those of the UI,
\* one without prompt_levels and one whose prompt_levels is no list
SettingsGiven ==
    {create_settings_from_ui(<<>>, UiLevels[1]), create_settings_from_ui(D_src, UiLevels[2]),
     PyDict(<<Entry(K_handle_others, PyBool(TRUE))>>),
     PyDict(<<Entry(K_source_directory, PyInt(5)),
              Entry(K_prompt_levels, PyStr(W_cat))>>)}

\* what a settings or preset file holds when the manager is constructed:
\* nothing, a text that is no JSON, or a JSON object written by hand with
\* two levels, the second without a prompt
FilesFound ==
    {NoneResult, Some(T_notes),
     Some(JsonDumps(PyDict(<<Entry(K_prompt_levels,
                                   PyList(<<LevelDict(TRUE, W_dog),
                                            PyDict(<<Entry(K_enabled, PyBool(TRUE))>>)>>))>>)).s)}

\* no settings manager is constructed
SettingsIdle ==
    /\ manager = PyNone
    /\ heap = <<>>
    /\ store = [settings_file |-> NoneResult, preset |-> NoneResult]
    /\ returned = <<>>
----------------------------------------------------------------------------
(* read_info_from_image_stealth, one pixel per step *)

\* the variables of the orchestrator while the reader alone runs
ReadIdle ==
    /\ source = Absent
    /\ opened = Absent
    /\ attempt = "idle"
    /\ nai_dict = PyNone
    /\ prompt_out = PyNone

Init ==
    /\ input \in Inputs
    /\ image = Embed(input)
    /\ st = ScanInit
    /\ pc = "scan"
    /\ stealth_result = NoneResult
    /\ ReadIdle
    /\ DialectIdle
    /\ WorkerIdle
    /\ SettingsIdle

Iterate ==
    /\ pc = "scan"
    /\ ~LoopDone(st, image)
    /\ st' = LoopBody(st, image)
    /\ UNCHANGED <<input, image, pc, stealth_result, source, opened, attempt, nai_dict, prompt_out,
                   given, exifdict, naidict, comfyui_prompt, stage,
                   worker, job, disk, disk0, emitted, oplog,
                   manager, heap, store, returned>>

\* an iteration in the signature state
ConfirmSignature == st.confirming_signature /\ Iterate

\* an iteration in the length-prefix state
ReadParamLen == ~st.confirming_signature /\ st.reading_param_len /\ Iterate

\* an iteration in the payload state
ReadParam ==
    /\ ~st.confirming_signature /\ ~st.reading_param_len /\ st.reading_param
    /\ Iterate

\* an iteration with no state flag set: the loop is left
ImpossibleState ==
    /\ ~st.confirming_signature /\ ~st.reading_param_len /\ ~st.reading_param
    /\ Iterate

\* the loop is over: decode and return
Return ==
    /\ pc = "scan"
    /\ LoopDone(st, image)
    /\ stealth_result' = StealthReturn(st)
    /\ pc' = "done"
    /\ UNCHANGED <<input, image, st, source, opened, attempt, nai_dict, prompt_out,
                   given, exifdict, naidict, comfyui_prompt, stage,
                   worker, job, disk, disk0, emitted, oplog,
                   manager, heap, store, returned>>

Next == ConfirmSignature \/ ReadParamLen \/ ReadParam \/ ImpossibleState \/ Return

Spec == Init /\ [][Next]_vars

----------------------------------------------------------------------------
(* read_info_from_image, one attempt per step *)

\* the variables of the reader while the orchestrator runs
ScanIdle ==
    /\ input = Absent
    /\ image = Absent
    /\ st = ScanInit
    /\ pc = "idle"
    /\ stealth_result = NoneResult

\* Image.open has succeeded
InitRead ==
    /\ source \in ReadInputs
    /\ opened = BuildImage(source)
    /\ attempt = "nai_dict"
    /\ nai_dict = PyNone
    /\ prompt_out = PyNone
    /\ ScanIdle
    /\ DialectIdle
    /\ WorkerIdle
    /\ SettingsIdle

\* the step after an attempt: return its value, go on to the attempt that
\* follows, or leave the with block with the exception
Step(outcome, following) ==
    /\ attempt' = IF outcome.kind = "return" THEN "done"
                  ELSE IF outcome.kind = "raise" THEN "except"
                  ELSE following
    /\ prompt_out' = IF outcome.kind = "return" THEN outcome.v ELSE prompt_out
    /\ UNCHANGED <<input, image, st, pc, stealth_result, source, opened,
                   given, exifdict, naidict, comfyui_prompt, stage,
                   worker, job, disk, disk0, emitted, oplog,
                   manager, heap, store, returned>>

TryNaiDict ==
    /\ attempt = "nai_dict"
    /\ nai_dict' = get_naidict_from_img(opened)
    /\ Step(PromptOfNaidict(nai_dict'), "parameters")

TryParameters ==
    /\ attempt = "parameters"
    /\ UNCHANGED nai_dict
    /\ Step(ParametersAttempt(opened), "comfyui")

TryComfyui ==
    /\ attempt = "comfyui"
    /\ UNCHANGED nai_dict
    /\ Step(ComfyuiAttempt(opened), "exif")

TryExif ==
    /\ attempt = "exif"
    /\ UNCHANGED nai_dict
    /\ Step(ExifAttempt(opened), "stealth")

TryStealth ==
    /\ attempt = "stealth"
    /\ UNCHANGED nai_dict
    /\ Step(StealthAttempt(opened), "nothing")

\* mutant: the handler lets the exception pass
OnException_reraise == [attempt |-> "raised", prompt_out |-> PyNone]

\* except Exception of lines 315-317
OnException == [attempt |-> "done", prompt_out |-> PyStr(<<>>)]

\* line 314
ReturnEmpty ==
    /\ attempt = "nothing"
    /\ attempt' = "done"
    /\ prompt_out' = PyStr(<<>>)
    /\ UNCHANGED <<input, image, st, pc, stealth_result, source, opened, nai_dict,
                   given, exifdict, naidict, comfyui_prompt, stage,
                   worker, job, disk, disk0, emitted, oplog,
                   manager, heap, store, returned>>

HandleException ==
    /\ attempt = "except"
    /\ attempt' = OnException.attempt
    /\ prompt_out' = OnException.prompt_out
    /\ UNCHANGED <<input, image, st, pc, stealth_result, source, opened, nai_dict,
                   given, exifdict, naidict, comfyui_prompt, stage,
                   worker, job, disk, disk0, emitted, oplog,
                   manager, heap, store, returned>>

NextRead ==
    \/ TryNaiDict \/ TryParameters \/ TryComfyui \/ TryExif \/ TryStealth
    \/ ReturnEmpty \/ HandleException

SpecRead == InitRead /\ [][NextRead]_vars
----------------------------------------------------------------------------
(* The dialect parsers, one call per step *)

InitDialect ==
    /\ given \in DialectInputs
    /\ exifdict = PyNone
    /\ naidict = PyNone
    /\ comfyui_prompt = PyNone
    /\ stage = "given"
    /\ ScanIdle
    /\ ReadIdle
    /\ WorkerIdle
    /\ SettingsIdle

\* the variables the dialect pipeline leaves alone
DialectFrame ==
    UNCHANGED <<input, image, st, pc, stealth_result, source, opened, attempt, nai_dict,
                prompt_out, given, worker, job, disk, disk0, emitted, oplog,
                   manager, heap, store, returned>>

\* ed = parse_webui_exif(text) for a parameter block
ParseWebui ==
    /\ stage = "given" /\ given.kind = "block"
    /\ exifdict' = parse_webui_exif(GivenText(given))
    /\ stage' = "exifdict"
    /\ UNCHANGED <<naidict, comfyui_prompt>>
    /\ DialectFrame

\* nai_exif = json.loads(data['Comment']) for the text of a nested object
LoadNested ==
    /\ stage = "given" /\ given.kind = "nested"
    /\ exifdict' = PyJsonLoads(PyStr(GivenText(given))).v
    /\ stage' = "exifdict"
    /\ UNCHANGED <<naidict, comfyui_prompt>>
    /\ DialectFrame

\* nd = _get_naidict_from_exifdict(ed) if ed else None, for a parameter block
NormalizeWebui ==
    /\ stage = "exifdict" /\ given.kind = "block"
    /\ naidict' = RecordIf(exifdict)
    /\ stage' = "naidict"
    /\ UNCHANGED <<exifdict, comfyui_prompt>>
    /\ DialectFrame

\* nd = _get_naidict_from_exifdict(nai_exif), for a nested object
NormalizeNested ==
    /\ stage = "exifdict" /\ given.kind = "nested"
    /\ naidict' = _get_naidict_from_exifdict(exifdict)
    /\ stage' = "naidict"
    /\ UNCHANGED <<exifdict, comfyui_prompt>>
    /\ DialectFrame

\* comfyui_prompt = _extract_comfyui_prompt(png_info)
ExtractComfyui ==
    /\ stage = "given" /\ given.kind = "graph"
    /\ comfyui_prompt' = _extract_comfyui_prompt(GraphInfo(given))
    /\ stage' = "comfyui"
    /\ UNCHANGED <<exifdict, naidict>>
    /\ DialectFrame

NextDialect ==
    ParseWebui \/ LoadNested \/ NormalizeWebui \/ NormalizeNested \/ ExtractComfyui

SpecDialect == InitDialect /\ [][NextDialect]_vars
----------------------------------------------------------------------------
(* ImageClassifierWorker: the run of the worker thread, one action per     *)
(* step between two reads of the canceled flag, the cancel() of the UI      *)
(* thread, finalize_safe_mode and undo_last_operation                       *)

\* ImageClassifierWorker(...): the settings and the fields of __init__
NewWorker(c) ==
    [source_dir |-> c.source_dir, prompt_levels |-> c.prompt_levels,
     rename_images |-> c.rename_images, handle_others |-> c.handle_others,
     resolve_conflicts |-> c.resolve_conflicts,
     full_tracking_enabled |-> c.full_tracking_enabled,
     full_tracking_prompt |-> c.full_tracking_prompt,
     custom_dest_enabled |-> c.custom_dest_enabled,
     custom_dest_path |-> c.custom_dest_path,
     safe_mode_enabled |-> c.safe_mode_enabled,
     clone_mode_enabled |-> c.clone_mode_enabled,
     canceled |-> FALSE, undo_info |-> <<>>, created_dirs |-> <<>>,
     processed_files_info |-> <<>>]

\* the locals of run and _process_images_by_keywords, and where the thread is
NewJob ==
    [at |-> "new", operation_type |-> "move", level_idx |-> 1, current_dirs |-> <<>>,
     batch |-> 0, keywords |-> <<>>, image_paths |-> {}, pending |-> {}, next_dirs |-> <<>>,
     unmatched_images |-> <<>>, keyword_counters |-> <<>>, other_counter |-> 0]

InitWorker ==
    /\ \E c \in WorkerSettings : worker = NewWorker(c)
    /\ disk \in Layouts
    /\ disk0 = disk
    /\ job = NewJob
    /\ emitted = <<>>
    /\ oplog = <<>>
    /\ SettingsIdle
    /\ ScanIdle
    /\ ReadIdle
    /\ DialectIdle

\* the variables the worker leaves alone
WorkerFrame ==
    UNCHANGED <<input, image, st, pc, stealth_result, source, opened, attempt, nai_dict,
                prompt_out, given, exifdict, naidict, comfyui_prompt, stage, disk0,
                manager, heap, store, returned>>

\* a signal of the worker
Signal(name, count, by) == [signal |-> name, count |-> count, by |-> by]

\* the futures of a batch are submitted: lines 162-171
Submitted(j, images, keywords) ==
    [j EXCEPT !.at = "results", !.batch = @ + 1, !.keywords = keywords,
              !.image_paths = images, !.pending = images, !.next_dirs = <<>>,
              !.unmatched_images = <<>>,
              !.keyword_counters = [k \in {keywords[i] : i \in 1..Len(keywords)} |-> 0],
              !.other_counter = 0]

\* the variant in which only the clone mode copies
OperationType_clone_only(w) == IF w.clone_mode_enabled THEN "copy" ELSE "move"

\* operation_type, line 88
OperationType(w) ==
    IF w.safe_mode_enabled \/ w.clone_mode_enabled THEN "copy" ELSE "move"

\* run, lines 84-109: the lists are reset; with full tracking the images are
\* searched and the batch is submitted, or completed(0) is emitted
StartRun ==
    /\ job.at = "new"
    /\ worker' = [worker EXCEPT !.undo_info = <<>>, !.created_dirs = <<>>,
                                !.processed_files_info = <<>>]
    /\ IF ~worker.full_tracking_enabled
       THEN /\ job' = [job EXCEPT !.at = "level",
                          !.operation_type = OperationType(worker),
                          !.current_dirs = <<worker.source_dir>>]
            /\ UNCHANGED emitted
       ELSE IF \/ AllImages(disk, worker.source_dir) = {}
               \/ (KeywordsOf(worker.full_tracking_prompt) = <<>> /\ ~worker.handle_others)
       THEN /\ job' = [job EXCEPT !.at = "done"]
            /\ emitted' = Append(emitted, Signal("completed", 0, "run"))
       ELSE /\ job' = Submitted([job EXCEPT !.operation_type = OperationType(worker)],
                                AllImages(disk, worker.source_dir),
                                KeywordsOf(worker.full_tracking_prompt))
            /\ UNCHANGED emitted
    /\ UNCHANGED <<disk, oplog>>
    /\ WorkerFrame

\* the variant without the exception of line 112
Skipped_strict(w, level_idx) ==
    \/ ~w.prompt_levels[level_idx].enabled
    \/ Strip(w.prompt_levels[level_idx].prompt_string) = <<>>

\* the condition of line 111 with the exception of line 112
Skipped(w, level_idx) ==
    /\ \/ ~w.prompt_levels[level_idx].enabled
       \/ Strip(w.prompt_levels[level_idx].prompt_string) = <<>>
    /\ ~(level_idx = 1 /\ w.handle_others)

\* the levels run still goes through that are not skipped
LevelsLeft(w, j) ==
    {i \in j.level_idx..Len(w.prompt_levels) : ~Skipped(w, i)}

\* run, lines 110-125: the loop goes on to the next level that is not
\* skipped, collects its images and submits the batch; os.listdir raises for
\* a folder that is not there, and no image ends the loop
NextLevel ==
    /\ job.at = "level"
    /\ IF LevelsLeft(worker, job) = {}
       THEN job' = [job EXCEPT !.at = "end"]
       ELSE IF ListDirRaises(disk, job.current_dirs)
       THEN job' = [job EXCEPT !.at = "raised"]
       ELSE IF LevelImages(disk, job.current_dirs) = {}
       THEN job' = [job EXCEPT !.at = "end"]
       ELSE job' = Submitted([job EXCEPT !.level_idx = MinOf(LevelsLeft(worker, job)) + 1],
                             LevelImages(disk, job.current_dirs),
                             KeywordsOf(worker.prompt_levels[MinOf(LevelsLeft(worker, job))]
                                            .prompt_string))
    /\ UNCHANGED <<worker, disk, emitted, oplog>>
    /\ WorkerFrame

\* what the log of the model keeps of a result: the batch and its keywords,
\* the path and the file that was there, the status, and for a call of
\* _process_image_file what it did to which destination and whether that
\* destination (first: before the conflict test) was there before
Logged(j, phase, path, status, keyword, did, first, dest, existed) ==
    [batch |-> j.batch, keywords |-> j.keywords, phase |-> phase, path |-> path,
     id |-> IF path \in DOMAIN disk.files THEN disk.files[path] ELSE "",
     status |-> status, keyword |-> keyword, did |-> did, first |-> first,
     dest |-> dest, existed |-> existed]

\* the log entry of a call of _process_image_file
LoggedCall(j, phase, status, img_path, keyword, count) ==
    Logged(j, phase, img_path, status, keyword,
           DidCall(worker, disk, img_path, keyword, count, j.operation_type),
           FirstDestPath(worker, img_path, keyword, count),
           DestCall(worker, disk, img_path, keyword, count),
           Exists(disk, DestCall(worker, disk, img_path, keyword, count)))

\* where _process_images_by_keywords goes when the results are through
AfterResults(w, unmatched_images) ==
    IF w.handle_others /\ unmatched_images # <<>> THEN "others" ELSE "return"

\* a result with the status success: lines 187-192
Matched(img_path, keyword) ==
    /\ disk' = DiskAfter(worker, disk, img_path, keyword,
                         Counted(worker, job.keyword_counters[keyword]), job.operation_type)
    /\ worker' = WorkerAfter(worker, disk, img_path, keyword,
                             Counted(worker, job.keyword_counters[keyword]),
                             job.operation_type)
    /\ oplog' = Append(oplog, LoggedCall(job, "result", "success", img_path, keyword,
                                         Counted(worker, job.keyword_counters[keyword])))
    /\ job' = [job EXCEPT
          !.pending = @ \ {img_path},
          !.keyword_counters[keyword] = Counted(worker, @),
          !.next_dirs =
              IF /\ ReturnedDir(worker, disk, img_path, keyword,
                                Counted(worker, job.keyword_counters[keyword]),
                                job.operation_type) # <<>>
                 /\ \A i \in 1..Len(@) :
                        @[i] # ReturnedDir(worker, disk, img_path, keyword,
                                           Counted(worker, job.keyword_counters[keyword]),
                                           job.operation_type)
              THEN Append(@, ReturnedDir(worker, disk, img_path, keyword,
                                         Counted(worker, job.keyword_counters[keyword]),
                                         job.operation_type))
              ELSE @,
          !.at = IF job.pending = {img_path}
                 THEN AfterResults(worker, job.unmatched_images) ELSE @]

\* the variant in which a result without a keyword ends the batch
Unmatched_halt(img_path, status) ==
    /\ oplog' = Append(oplog, Logged(job, "result", img_path, status, <<>>, "none",
                                     <<>>, <<>>, FALSE))
    /\ job' = [job EXCEPT !.pending = {}, !.at = "return"]
    /\ UNCHANGED <<worker, disk>>

\* a result with another status: lines 193-194, or nothing for an error
Unmatched(img_path, status) ==
    /\ oplog' = Append(oplog, Logged(job, "result", img_path, status, <<>>, "none",
                                     <<>>, <<>>, FALSE))
    /\ job' = [job EXCEPT
          !.pending = @ \ {img_path},
          !.unmatched_images = IF status = "error" THEN @ ELSE Append(@, img_path),
          !.at = IF job.pending = {img_path}
                 THEN AfterResults(worker,
                                   IF status = "error" THEN job.unmatched_images
                                   ELSE Append(job.unmatched_images, img_path))
                 ELSE @]
    /\ UNCHANGED <<worker, disk>>

\* the status and keyword of the task of a path
ResultOf(d, img_path, keywords) ==
    IF img_path \in DOMAIN d.files
    THEN process_single_image_task(ImageFile(d.files[img_path]), keywords)
    ELSE TaskResult("error", <<>>)

\* _process_images_by_keywords, lines 173-201: the next future that is
\* completed; the flag is read, and either the method returns [] or the
\* result is handled
ExamineResult ==
    /\ job.at = "results"
    /\ \E img_path \in job.pending :
          IF worker.canceled
          THEN /\ job' = [job EXCEPT !.at = "end", !.next_dirs = <<>>]
               /\ UNCHANGED <<worker, disk, oplog>>
          ELSE IF ResultOf(disk, img_path, job.keywords).status = "success"
          THEN Matched(img_path, ResultOf(disk, img_path, job.keywords).keyword)
          ELSE Unmatched(img_path, ResultOf(disk, img_path, job.keywords).status)
    /\ UNCHANGED emitted
    /\ WorkerFrame

\* _process_images_by_keywords, lines 208-210: the next unmatched image; the
\* flag is read, and either the loop is left or the image goes to 'other'
HandleOther ==
    /\ job.at = "others"
    /\ IF worker.canceled
       THEN /\ job' = [job EXCEPT !.at = "return"]
            /\ UNCHANGED <<worker, disk, oplog>>
       ELSE /\ disk' = DiskAfter(worker, disk, job.unmatched_images[1], W_other,
                                 Counted(worker, job.other_counter), job.operation_type)
            /\ worker' = WorkerAfter(worker, disk, job.unmatched_images[1], W_other,
                                     Counted(worker, job.other_counter), job.operation_type)
            /\ oplog' = Append(oplog, LoggedCall(job, "other", "other",
                                                 job.unmatched_images[1], W_other,
                                                 Counted(worker, job.other_counter)))
            /\ job' = [job EXCEPT !.unmatched_images = Tail(@),
                                  !.other_counter = Counted(worker, @),
                                  !.at = IF Len(job.unmatched_images) = 1 THEN "return" ELSE @]
    /\ UNCHANGED emitted
    /\ WorkerFrame

\* _process_images_by_keywords returns next_dirs: run, lines 106 and 127-131
ReturnBatch ==
    /\ job.at = "return"
    /\ job' = IF worker.full_tracking_enabled \/ job.next_dirs = <<>>
              THEN [job EXCEPT !.at = "end"]
              ELSE [job EXCEPT !.at = "level", !.current_dirs = job.next_dirs]
    /\ UNCHANGED <<worker, disk, emitted, oplog>>
    /\ WorkerFrame

\* run, lines 133-136: the flag is read, and completed(0) is emitted for a
\* canceled run
TestCanceled ==
    /\ job.at = "end"
    /\ IF worker.canceled
       THEN /\ emitted' = Append(emitted, Signal("completed", 0, "run"))
            /\ job' = [job EXCEPT !.at = "done"]
       ELSE /\ job' = [job EXCEPT !.at = "finish"]
            /\ UNCHANGED emitted
    /\ UNCHANGED <<worker, disk, oplog>>
    /\ WorkerFrame

\* run, lines 138-142
Finish ==
    /\ job.at = "finish"
    /\ IF worker.safe_mode_enabled
       THEN /\ emitted' = Append(emitted, Signal("safe_mode_dialog_required",
                                                 Len(worker.processed_files_info), "run"))
            /\ job' = [job EXCEPT !.at = "dialog"]
       ELSE /\ emitted' = Append(emitted, Signal("completed",
                                                 Len(worker.processed_files_info), "run"))
            /\ job' = [job EXCEPT !.at = "done"]
    /\ UNCHANGED <<worker, disk, oplog>>
    /\ WorkerFrame

\* where the thread is while run is executed
Running == {"level", "results", "others", "return", "end", "finish"}

\* cancel(), called by the UI thread while the worker thread is running
Cancel ==
    /\ job.at \in Running
    /\ ~worker.canceled
    /\ worker' = [worker EXCEPT !.canceled = TRUE]
    /\ UNCHANGED <<job, disk, emitted, oplog>>
    /\ WorkerFrame

\* the src, or the dest, of each entry of processed_files_info
SrcOf(infos) == [i \in 1..Len(infos) |-> infos[i].src]
DestOf(infos) == [i \in 1..Len(infos) |-> infos[i].dest]

\* finalize_safe_mode(choice), called by the dialog of the UI for a run that
\* processed a file
finalize_safe_mode(choice) ==
    /\ job.at = "dialog"
    /\ Len(worker.processed_files_info) > 0
    /\ disk' = IF choice = "delete" THEN RemoveEach(disk, SrcOf(worker.processed_files_info))
               ELSE IF choice = "undo"
               THEN RemoveEach(disk, DestOf(worker.processed_files_info))
               ELSE disk
    /\ worker' = [worker EXCEPT !.undo_info =
          IF choice = "undo" THEN <<>>
          ELSE @ \o [i \in 1..Len(worker.processed_files_info) |->
                       UndoInfo(worker.processed_files_info[i].src,
                                worker.processed_files_info[i].dest,
                                IF choice = "delete" THEN "move" ELSE "copy")]]
    /\ emitted' = Append(emitted,
                         Signal("completed",
                                IF choice = "undo" THEN 0 ELSE Len(worker.processed_files_info),
                                "finalize_safe_mode"))
    /\ job' = [job EXCEPT !.at = IF choice = "delete" THEN "finalized_delete"
                                  ELSE IF choice = "undo" THEN "finalized_undo"
                                  ELSE "finalized_keep"]
    /\ UNCHANGED oplog
    /\ WorkerFrame

FinalizeSafeMode == \E choice \in {"delete", "keep", "undo"} : finalize_safe_mode(choice)

\* undo_last_operation(), called by the UI once the run is over
undo_last_operation ==
    /\ job.at \in {"done", "finalized_delete", "finalized_keep", "finalized_undo"}
    /\ IF worker.undo_info = <<>>
       THEN UNCHANGED <<worker, disk>>
       ELSE /\ disk' = RemoveEmptyDirs(UndoReplay(disk, worker.undo_info),
                                       worker.created_dirs)
            /\ worker' = [worker EXCEPT !.undo_info = <<>>, !.created_dirs = <<>>,
                                        !.processed_files_info = <<>>]
    /\ job' = [job EXCEPT !.at = "undone"]
    /\ UNCHANGED <<emitted, oplog>>
    /\ WorkerFrame

NextWorker ==
    \/ StartRun
    \/ NextLevel
    \/ ExamineResult
    \/ HandleOther
    \/ ReturnBatch
    \/ TestCanceled
    \/ Finish
    \/ Cancel
    \/ FinalizeSafeMode
    \/ undo_last_operation

SpecWorker == InitWorker /\ [][NextWorker]_vars
----------------------------------------------------------------------------
(* src/settings_manager.py: the SettingsManager, one action per method.     *)

\* _validate_settings(settings): the dict returned and the heap after it
Validated(h, default_settings, settings) ==
    [validated |-> TRUE,
     dict |-> ValidatedDict(default_settings, settings),
     heap |-> HeapAfterValidate(h, default_settings, settings)]

\* no validation: the file is not there or holds no JSON
NotValidated(h, default_settings) ==
    [validated |-> FALSE, dict |-> default_settings, heap |-> h]

\* _validate_settings of what json.load has made of a file
ValidatedIfParsed(h, default_settings, parsed) ==
    IF parsed.ok THEN Validated(h, default_settings, parsed.v)
    ELSE NotValidated(h, default_settings)

\* json.load of a file and _validate_settings of what it holds
Loaded(h, default_settings, file) ==
    IF file.some THEN ValidatedIfParsed(h, default_settings, JsonLoads(file.text))
    ELSE NotValidated(h, default_settings)

\* the text json.dump writes for a dict (indent changes its white space only)
Dumped(h, d) == Some(JsonDumps(Deref(h, d)).s)

\* a dict a validation returned, with the value it had then
Kept(h, d) == [dict |-> d, seen |-> Deref(h, d)]

\* returned after a call: the result of the last validation
ReturnedAfter(r) == IF r.validated THEN <<Kept(r.heap, r.dict)>> ELSE returned

\* __init__: the defaults are made, then load_settings gives current_settings
ConstructedWith(r, settings_file, preset) ==
    /\ manager = [default_settings |-> _get_default_settings, current_settings |-> r.dict]
    /\ heap = r.heap
    /\ store = [settings_file |-> settings_file, preset |-> preset]
    /\ returned = IF r.validated THEN <<Kept(r.heap, r.dict)>> ELSE <<>>

InitSettings ==
    /\ \E settings_file \in FilesFound, preset \in FilesFound :
          ConstructedWith(Loaded(<<FactoryLevels>>, _get_default_settings, settings_file),
                          settings_file, preset)
    /\ ScanIdle
    /\ ReadIdle
    /\ DialectIdle
    /\ WorkerIdle

SettingsFrame ==
    UNCHANGED <<input, image, st, pc, stealth_result, source, opened, attempt, nai_dict,
                prompt_out, given, exifdict, naidict, comfyui_prompt, stage,
                worker, job, disk, disk0, emitted, oplog>>

\* the state after a call with the validation r: the manager, the files
AfterCall(r, m, files) ==
    /\ manager' = m
    /\ heap' = r.heap
    /\ store' = files
    /\ returned' = ReturnedAfter(r)

\* load_settings()
load_settings ==
    /\ AfterCall(Loaded(heap, manager.default_settings, store.settings_file), manager, store)
    /\ SettingsFrame

SaveSettings(r) ==
    AfterCall(r, [manager EXCEPT !.current_settings = r.dict],
           [store EXCEPT !.settings_file = Dumped(r.heap, r.dict)])

\* save_settings(settings)
save_settings ==
    \E settings \in SettingsGiven :
       /\ SaveSettings(Validated(heap, manager.default_settings, settings))
       /\ SettingsFrame

SavePreset(r) == AfterCall(r, manager, [store EXCEPT !.preset = Dumped(r.heap, r.dict)])

\* save_preset(name, settings): settings is None for the current settings
save_preset ==
    \E name \in {<<>>, N_preset}, settings \in SettingsGiven \cup {PyNone} :
       IF name = <<>> THEN UNCHANGED vars
       ELSE /\ SavePreset(Validated(heap, manager.default_settings,
                                    IF settings = PyNone THEN manager.current_settings
                                    ELSE settings))
            /\ SettingsFrame

\* load_preset(name): the current settings are returned if the name is
\* empty, the file is not there or it holds no JSON
load_preset ==
    \E name \in {<<>>, N_preset} :
       IF name = <<>> THEN UNCHANGED vars
       ELSE /\ AfterCall(Loaded(heap, manager.default_settings, store.preset),
                         manager, store)
            /\ SettingsFrame

\* delete_preset(name)
delete_preset ==
    \E name \in {<<>>, N_preset} :
       /\ store' = [store EXCEPT !.preset = IF name = <<>> THEN @ ELSE NoneResult]
       /\ UNCHANGED <<manager, heap, returned>>
       /\ SettingsFrame

NextSettings ==
    \/ load_settings
    \/ save_settings
    \/ save_preset
    \/ load_preset
    \/ delete_preset

SpecSettings == InitSettings /\ [][NextSettings]_vars
----------------------------------------------------------------------------
(* What the image holds, read off the pixels in scan order: column by       *)
(* column, the k-th pixel is (k div height, k mod height)                   *)

PixelCount(img) == img.width * img.height
PixelAt(img, k) == img.pixels[<<k \div img.height, k % img.height>>]

\* bit number i (from 1) of the scanned channel: one alpha bit per pixel if
\* the image has an alpha channel, else R, G, B of each pixel
ChannelBit(img, i) ==
    IF ImageHasAlpha(img) THEN PixelAt(img, i - 1)[4] % 2
    ELSE PixelAt(img, (i - 1) \div 3)[((i - 1) % 3) + 1] % 2

\* pixels that hold n bits of the scanned channel
PixelsOf(img, n) == IF ImageHasAlpha(img) THEN n ELSE (n + 2) \div 3

\* the first n bits of the scanned channel of the whole image, if it has them
HasBits(img, n) == PixelsOf(img, n) <= PixelCount(img)
FirstBits(img, n) == [i \in 1..n |-> ChannelBit(img, i)]

KnownSignatures == {stealth_pnginfo, stealth_pngcomp, stealth_rgbinfo, stealth_rgbcomp}

\* whether the first 120 bits of the scanned channel are the bits of sig
Spells(img, sig) ==
    HasBits(img, SigBits) /\ FirstBits(img, SigBits) = BitsOfBytes(sig)

SpellsKnownSignature(img) == \E sig \in KnownSignatures : Spells(img, sig)

\* the 33 bits that follow the signature in the RGB channels
LenBitsRgb(img) == SubSeq(FirstBits(img, SigBits + 33), SigBits + 1, SigBits + 33)

----------------------------------------------------------------------------
(* Claims *)

\* C2: stealth round trip. For every plaintext, both channel modes and both
\* the compressed and the uncompressed variant, the image an encoder makes
\* (signature, 32-bit length, payload bits in the low bits, in scan order)
\* is read back as exactly the plaintext.
C2_RoundTrip ==
    (pc = "done" /\ Honest(input)) => stealth_result = Some(input.text)

\* C3: in an image with an alpha channel the signature is evaluated (the
\* signature state is left) exactly when 120 alpha bits, one per pixel,
\* have been collected, and if they spell stealth_pnginfo or stealth_pngcomp
\* the signature is confirmed and the reader is in alpha mode.
C3_AlphaSignature ==
    ImageHasAlpha(image) =>
        /\ st.index_a <= st.nread
        /\ st.confirming_signature <=> st.nread < SigBits
        /\ (st.nread >= SigBits
             /\ (Spells(image, stealth_pnginfo) \/ Spells(image, stealth_pngcomp)))
            => (st.sig_confirmed /\ st.mode = "alpha")

\* C4: whenever the first 120 bits of the scanned channel do not spell one of
\* the four signatures, the reader returns None, whatever else the image holds.
C4_SignatureSensitivity ==
    (pc = "done" /\ ~SpellsKnownSignature(image)) => stealth_result = NoneResult

\* C4 witness: a scan has ended on an image whose signature has one bit
\* inverted and is followed by a length and a payload.
C4_Witness ==
    /\ pc = "done" /\ input.flip # 0 /\ input.chan = "rgb" /\ ~ImageHasAlpha(image)
    /\ ~SpellsKnownSignature(image)
    /\ st.nread > SigBits \div 3

\* C5 as stated: in RGB mode the length is the number spelled by the last 32
\* of the 33 bits that follow the signature (the first of them discarded).
C5_FirstBitDiscarded ==
    (st.mode = "rgb" /\ st.reading_param)
        => st.param_len = IntOfBits(SubSeq(LenBitsRgb(image), 2, 33))

\* C5 amended: in RGB mode the length-prefix state ends with the pixel that
\* completes 33 bits after the signature; the length is the number spelled
\* by the first 32 of them and the 33rd is the first bit of the payload
\* buffer.
C5_LastBitKept ==
    /\ (st.mode = "rgb" /\ st.reading_param_len) => st.nread < (SigBits + 33) \div 3
    /\ (st.mode = "rgb" /\ st.reading_param)
        => /\ st.nread >= (SigBits + 33) \div 3
           /\ st.param_len = IntOfBits(SubSeq(LenBitsRgb(image), 1, 32))
           /\ st.index_rgb = Len(st.buffer_rgb)
           /\ st.buffer_rgb = SubSeq(FirstBits(image, SigBits + 32 + st.index_rgb),
                                     SigBits + 33, SigBits + 32 + st.index_rgb)

\* C5 witness: the payload state was entered in RGB mode with a length
\* prefix whose 33rd bit makes the two readings differ.
C5_Witness ==
    /\ st.mode = "rgb" /\ st.reading_param /\ st.index_rgb = 1
    /\ st.param_len = 8
    /\ IntOfBits(SubSeq(LenBitsRgb(image), 2, 33)) # 8

\* C6: in RGB mode the bit string handed to decoding has exactly the
\* declared number of bits, for every declared length.
C6_Truncated ==
    (st.mode = "rgb" /\ st.read_end) => Len(st.binary_data) = st.param_len

\* C7: the scan reads the pixels in column-major order, each at most once and
\* never more than width x height of them; every iteration reads one more
\* pixel; a scan that runs out of pixels returns None.
C7_Inv ==
    /\ st.nread <= PixelCount(image)
    /\ (pc = "scan" /\ ~st.read_end) => st.x * image.height + st.y = st.nread
    /\ (pc = "done" /\ ~st.read_end)
        => (st.nread = PixelCount(image) /\ stealth_result = NoneResult)

C7_BoundedScan ==
    /\ []C7_Inv
    /\ [][(pc = "scan" /\ st'.nread = st.nread + 1) \/ (pc = "scan" /\ pc' = "done")]_vars

\* C7 witness: the pixels ran out in the payload state, after more than one
\* column was read.
C7_Witness ==
    /\ pc = "done" /\ ~st.read_end /\ st.reading_param
    /\ st.nread = PixelCount(image) /\ image.width > 1

\* C8: at most one of the three states is active, the states are entered in
\* the order signature, length prefix, payload, and once the signature is
\* confirmed mode and compressed stay as they are, compressed being true
\* exactly for a 'comp' signature.
StateRank(s) ==
    IF s.confirming_signature THEN 0
    ELSE IF s.reading_param_len THEN 1
    ELSE IF s.reading_param THEN 2
    ELSE 3

C8_Inv ==
    /\ Cardinality({f \in {"confirming_signature", "reading_param_len", "reading_param"} :
                       st[f]}) <= 1
    /\ st.sig_confirmed <=> st.mode # "None"
    /\ st.sig_confirmed =>
          /\ ~st.confirming_signature
          /\ st.mode = "alpha" => (Spells(image, stealth_pnginfo)
                                    \/ Spells(image, stealth_pngcomp))
          /\ st.mode = "rgb" => (Spells(image, stealth_rgbinfo)
                                  \/ Spells(image, stealth_rgbcomp))
          /\ st.compressed <=> (Spells(image, stealth_pngcomp)
                                 \/ Spells(image, stealth_rgbcomp))
    /\ ~st.sig_confirmed => (~st.reading_param_len /\ ~st.reading_param /\ ~st.compressed)

C8_Step ==
    /\ StateRank(st') >= StateRank(st)
    /\ StateRank(st') \in {1, 2} => StateRank(st') <= StateRank(st) + 1
    /\ st.sig_confirmed =>
          (st'.sig_confirmed /\ st'.mode = st.mode /\ st'.compressed = st.compressed)

C8_StateMachine == []C8_Inv /\ [][C8_Step]_vars

\* C8 witness: a compressed RGB signature was confirmed and the reader is in
\* the payload state.
C8_Witness ==
    /\ st.sig_confirmed /\ st.compressed /\ st.mode = "rgb"
    /\ st.reading_param /\ st.index_rgb > 1


----------------------------------------------------------------------------
(* What an input holds, told from how it was made *)

\* the format carries an EXIF UserComment that decodes to a text
HasUserComment(src) == src.format \in {"JPEG", "WEBP"} /\ src.exif.kind = "comment"

\* the two candidate strings in the order they are tried: the EXIF
\* UserComment or else the 'Comment' or 'parameters' field, then the text in
\* the pixels
CandidateChoices(src) ==
    <<IF HasUserComment(src) THEN src.exif.choice
      ELSE IF src.comment.kind # "absent" THEN src.comment
      ELSE src.parameters,
      StealthChoice(src.pix)>>

\* a candidate that is a JSON object with a 'Comment' key that holds a
\* nested JSON object
IsToolA(choice) == choice.kind = "wrap"

\* (value or "").strip() exists
Strippable(v) == ~Truthy(v) \/ v.t = "str"

\* the negative prompt a nested object brings: uc, or else negative_prompt
NegativeOf(nested) ==
    IF DictHas(nested, K_uc) /\ DictGet(nested, K_uc).t # "none" THEN DictGet(nested, K_uc)
    ELSE DictGet(nested, K_negative_prompt)

\* the prompt and the negative prompt of the nested object are texts or
\* false values
Normalizes(nested) == Strippable(DictGet(nested, K_prompt)) /\ Strippable(NegativeOf(nested))

\* the trimmed prompt of a nested object, empty for a false value
TrimmedPrompt(nested) ==
    IF Truthy(DictGet(nested, K_prompt)) THEN Strip(DictGet(nested, K_prompt).s) ELSE <<>>

\* v is a normalized record: prompt, negative_prompt, option, etc
IsRecord(v) ==
    /\ v.t = "dict"
    /\ [i \in 1..Len(v.o) |-> v.o[i].k] = <<K_prompt, K_negative_prompt, K_option, K_etc>>

\* no info field, no UserComment text, no text in the pixels
NoMetadata(src) ==
    /\ src.comment.kind = "absent" /\ src.parameters.kind = "absent"
    /\ src.graph.kind = "absent"
    /\ src.exif.kind # "comment"
    /\ StealthChoice(src.pix).kind = "absent"

\* C1: read_info_from_image never raises, whatever the image and its
\* metadata sources hold (no exception leaves the function), and it returns
\* the empty string when neither the info map nor the EXIF UserComment nor
\* the pixels carry any metadata.
C1_NeverRaises ==
    /\ attempt # "raised"
    /\ (attempt = "done" /\ NoMetadata(source)) => prompt_out = PyStr(<<>>)

\* C1 witness: the function has returned for a greyscale image without
\* metadata, whose pixels made the stealth reader raise.
C1_Witness ==
    /\ attempt = "done" /\ NoMetadata(source) /\ source.pix = "L"
    /\ source.exif.kind = "bad"
    /\ prompt_out = PyStr(<<>>)

\* C9 as stated: whenever a candidate string is a JSON object with a non-null
\* 'Comment' key holding a nested JSON object, get_naidict_from_img returns
\* the record of that nested object, with the nested object's prompt as its
\* prompt, also when the candidate has a 'parameters' key.
C9_ToolAPrecedence ==
    attempt \notin {"idle", "nai_dict"} =>
        \A i \in 1..2 :
            LET cand == CandidateChoices(source)[i]
            IN IsToolA(cand) =>
                  /\ IsRecord(nai_dict)
                  /\ DictHas(cand.nested, K_prompt)
                        => DictGet(nai_dict, K_prompt) = DictGet(cand.nested, K_prompt)

\* the first candidate that is a Tool-A wrapper whose nested object
\* normalizes, 0 if there is none
FirstToolA(src) ==
    LET hits == {i \in 1..2 : IsToolA(CandidateChoices(src)[i])
                              /\ Normalizes(CandidateChoices(src)[i].nested)}
    IN IF hits = {} THEN 0 ELSE MinOf(hits)

\* C9 amended: get_naidict_from_img returns the record of the nested object
\* of the first candidate (EXIF or container text before the stealth text)
\* that is a JSON object with a non-null 'Comment' key holding a nested JSON
\* object whose prompt and negative prompt are texts or false values; the
\* record's prompt is the nested prompt with the white space around it
\* removed (empty if there is none), also when the candidate has a
\* 'parameters' key and the info map a 'parameters' field.
C9_FirstToolARecord ==
    (attempt \notin {"idle", "nai_dict"} /\ FirstToolA(source) # 0) =>
        /\ IsRecord(nai_dict)
        /\ DictGet(nai_dict, K_prompt)
              = PyStr(TrimmedPrompt(CandidateChoices(source)[FirstToolA(source)].nested))

\* C9 witness: the record was made from a wrapper in the 'Comment' field
\* that has a 'parameters' key, beside a 'parameters' field of the info map,
\* and its prompt is the nested prompt without the white space around it.
C9_Witness ==
    /\ attempt \notin {"idle", "nai_dict"}
    /\ FirstToolA(source) = 1
    /\ source.comment.kind = "wrap" /\ source.comment.params
    /\ source.parameters.kind = "text"
    /\ DictGet(source.comment.nested, K_prompt) = PyStr(T_padded)
    /\ IsRecord(nai_dict) /\ DictGet(nai_dict, K_prompt) = PyStr(T_a_cat)

\* C10: when the info map has a non-empty 'parameters' string and no
\* candidate is a Tool-A wrapper, read_info_from_image returns that string
\* as it is.
C10_ParametersVerbatim ==
    (/\ attempt = "done"
     /\ source.parameters.kind = "text"
     /\ \A i \in 1..2 : ~IsToolA(CandidateChoices(source)[i]))
        => prompt_out = PyStr(source.parameters.text)

\* the node graphs a 'prompt' field is written from
Graphs == {TwoEncoders, BrokenGraph}

\* the node graph behind the text of a 'prompt' field
GraphOf(choice) == CHOOSE g \in Graphs : JsonDumps(g).s = choice.text

\* a text-encoder node whose inputs.text is a string
IsTextEncoder(node) ==
    /\ node.t = "dict"
    /\ DictGet(node, K_class_type) = PyStr(V_CLIPTextEncode)
    /\ DictGet(node, K_inputs).t = "dict"
    /\ DictGet(DictGet(node, K_inputs), K_text).t = "str"

\* the texts of the text-encoder nodes of a graph, in the order of the nodes
EncoderTexts(graph) ==
    LET nodes == SelectSeq(graph.o, LAMBDA en : IsTextEncoder(en.v))
    IN [i \in 1..Len(nodes) |-> DictGet(DictGet(nodes[i].v, K_inputs), K_text).s]

\* no field and no candidate is a Tool-A wrapper
NoToolA(src) ==
    /\ src.comment.kind = "absent"
    /\ \A i \in 1..2 : ~IsToolA(CandidateChoices(src)[i])

\* C11: when the info map has a 'prompt' field with a node graph that has a
\* text-encoder node with a string as inputs.text, and there is neither a
\* Tool-A wrapper nor a 'parameters' field, read_info_from_image returns
\* the texts of those nodes joined by newlines.
C11_GraphJoined ==
    (/\ attempt = "done"
     /\ source.graph.kind = "text"
     /\ EncoderTexts(GraphOf(source.graph)) # <<>>
     /\ source.parameters.kind = "absent"
     /\ NoToolA(source))
        => prompt_out = PyStr(Join(EncoderTexts(GraphOf(source.graph)), <<10>>))

\* what the EXIF attempt is to return for a UserComment text: the 'comment'
\* field of a JSON object, or else the text
CommentOrText(text, loaded) ==
    IF loaded.ok /\ loaded.v.t = "dict" /\ DictHas(loaded.v, K_comment)
    THEN DictGet(loaded.v, K_comment)
    ELSE PyStr(text)

\* C12: for a JPEG or WEBP image whose info map has no 'Comment',
\* 'parameters' or 'prompt' field and whose UserComment is no Tool-A
\* wrapper, read_info_from_image returns the 'comment' field of a UserComment
\* that is a JSON object with that field, and the UserComment text as it is
\* otherwise.
C12_ExifComment ==
    (/\ attempt = "done"
     /\ HasUserComment(source)
     /\ source.parameters.kind = "absent" /\ source.graph.kind = "absent"
     /\ NoToolA(source))
        => prompt_out = CommentOrText(source.exif.choice.text,
                                      JsonLoads(source.exif.choice.text))

\* C13: a source of higher priority that gives an empty prompt or none does
\* not suppress the text in the pixels: when the pixels carry a stealth
\* text, read_info_from_image returns a non-empty prompt.
C13_NoSuppression ==
    (attempt = "done" /\ StealthChoice(source.pix).kind # "absent")
        => (prompt_out.t = "str" /\ prompt_out.s # <<>>)

\* the attempts that have an attempt of lower priority after them
EarlierAttempts == {"nai_dict", "parameters", "comfyui", "exif"}

\* the attempt of next lower priority
Following(a) ==
    CASE a = "nai_dict" -> "parameters"
      [] a = "parameters" -> "comfyui"
      [] a = "comfyui" -> "exif"
      [] a = "exif" -> "stealth"

\* how an attempt ends on an image
AttemptOutcome(a, img) ==
    CASE a = "nai_dict" -> PromptOfNaidict(get_naidict_from_img(img))
      [] a = "parameters" -> ParametersAttempt(img)
      [] a = "comfyui" -> ComfyuiAttempt(img)
      [] a = "exif" -> ExifAttempt(img)

\* C14: an exception raised inside an attempt of read_info_from_image is
\* taken as the attempt finding nothing: the attempt of next lower priority
\* runs after it.
C14_Isolation ==
    [][(attempt \in EarlierAttempts /\ AttemptOutcome(attempt, opened).kind = "raise")
          => attempt' = Following(attempt)]_vars

----------------------------------------------------------------------------
(* What a parameter block and a nested object hold, told from how they    *)
(* were made                                                              *)

\* the lines of a block that start, after trimming, with 'Negative prompt:'
NegativeLines(ls) == {i \in 1..Len(ls) : StartsWith(Strip(ls[i]), M_NegativePrompt)}

\* the first of them, 0 if there is none
FirstNegative(ls) == IF NegativeLines(ls) = {} THEN 0 ELSE MinOf(NegativeLines(ls))

\* the lines after the first 'Negative prompt:' line: the option lines
LaterLines(ls) == SubSeq(ls, FirstNegative(ls) + 1, Len(ls))

\* the entries that option lines bring: the options, then the others
EntriesOfLines(parsed_lines) == DictUpdate(parsed_lines.options, parsed_lines.etc).o

\* a parameter block has been parsed
BlockParsed == stage \in {"exifdict", "naidict"} /\ given.kind = "block"

\* C15: if a line of a parameter block starts, after trimming, with
\* 'Negative prompt:', at whatever position, the prompt is the trimmed join
\* of the lines before the first such line and all lines after it are
\* option lines; if no line does, the prompt is the whole trimmed text, the
\* negative prompt is empty and there are no options.
C15_BlockSplit ==
    BlockParsed =>
        IF FirstNegative(given.lines) # 0
        THEN /\ DictGet(exifdict, K_prompt)
                  = PyStr(Strip(Join(SubSeq(given.lines, 1, FirstNegative(given.lines) - 1),
                                     <<10>>)))
             /\ SubSeq(exifdict.o, 4, Len(exifdict.o))
                  = EntriesOfLines(ParseOptionParts(OptionParts(LaterLines(given.lines)),
                                      [options |-> PyDict(<<>>), etc |-> PyDict(<<>>)]))
        ELSE /\ DictGet(exifdict, K_prompt) = PyStr(Strip(GivenText(given)))
             /\ DictGet(exifdict, K_negative_prompt) = PyStr(<<>>)
             /\ Len(exifdict.o) = 3

\* C16: for a parameter-block line that starts, after trimming, with
\* 'Negative prompt:' (white space before it or not), negative_prompt is
\* the trimmed rest of the trimmed line after that prefix.
C16_NegativeRemainder ==
    (BlockParsed /\ FirstNegative(given.lines) # 0) =>
        DictGet(exifdict, K_negative_prompt)
            = PyStr(Strip(From(Strip(given.lines[FirstNegative(given.lines)]),
                               Len(M_NegativePrompt))))

\* the synonyms: the keys of the synonym table that are not canonical names
SynonymKeys ==
    {WEBUI_OPTION_MAPPING.o[i].k :
        i \in {j \in 1..Len(WEBUI_OPTION_MAPPING.o) :
                 WEBUI_OPTION_MAPPING.o[j].v.s # WEBUI_OPTION_MAPPING.o[j].k}}

\* the comma-separated segments of a line, trimmed
Segments(line) ==
    [j \in 1..Len(SplitOn(Strip(line), 44)) |-> Strip(SplitOn(Strip(line), 44)[j])]

\* the key of a 'key: value' segment, trimmed and in lower case
SegmentKey(part) == Lower(Strip(SplitFirst(part, 58)[1]))

\* a 'key: value' segment whose key is a synonym
IsSynonymSegment(part) == Contains(part, <<58>>) /\ SegmentKey(part) \in SynonymKeys

\* the options of a record
OptionsOf(rec) == DictGet(rec, K_option)

T_7_5 == <<55,46,53>>   \* '7.5'

\* C17: every 'key: value' segment of an option line of a parameter block
\* whose trimmed lower-case key is a synonym appears in the options of the
\* normalized record under its canonical key and not under the synonym; the
\* option line 'CFG scale: 7.5, Clip skip: 2' gives the options
\* {scale: 7.5, clip_skip: 2} and no others.
C17_SynonymFolding ==
    (stage = "naidict" /\ given.kind = "block" /\ FirstNegative(given.lines) # 0) =>
        /\ \A i \in 1..Len(LaterLines(given.lines)) :
             \A j \in 1..Len(Segments(LaterLines(given.lines)[i])) :
                IsSynonymSegment(Segments(LaterLines(given.lines)[i])[j]) =>
                   /\ IsRecord(naidict)
                   /\ DictHas(OptionsOf(naidict),
                              MappedKey(SegmentKey(Segments(LaterLines(given.lines)[i])[j])))
                   /\ ~DictHas(OptionsOf(naidict),
                               SegmentKey(Segments(LaterLines(given.lines)[i])[j]))
        /\ LaterLines(given.lines) = <<L_synonyms>> =>
              /\ IsRecord(naidict)
              /\ OptionsOf(naidict) = PyDict(<<Entry(K_scale, PyFloat(T_7_5)),
                                               Entry(K_clip_skip, PyInt(2))>>)

\* the keys of a mapping
KeysOf(d) == {d.o[i].k : i \in 1..Len(d.o)}

\* the canonical option names: the whitelist without the synonyms
CanonicalKeys ==
    {TARGETKEY_NAIDICT_OPTION[i] : i \in 1..Len(TARGETKEY_NAIDICT_OPTION)} \ SynonymKeys

\* _get_naidict_from_exifdict has returned a record
RecordMade == stage = "naidict" /\ IsRecord(naidict)

\* C18: every key of the options of a record that _get_naidict_from_exifdict
\* returns is a canonical whitelist name; a synonym such as 'cfg scale' or
\* 'cfg_scale' is never a key of the options.
C18_CanonicalOptionKeys == RecordMade => KeysOf(OptionsOf(naidict)) \subseteq CanonicalKeys

\* the keys of the prompt fields
PromptKeys == {K_prompt, K_uc, K_negative_prompt}

\* C19: in every record that _get_naidict_from_exifdict returns, the keys of
\* option and the keys of etc are disjoint, and none of them is prompt, uc
\* or negative_prompt.
C19_DisjointKeys ==
    RecordMade =>
        /\ KeysOf(OptionsOf(naidict)) \cap KeysOf(DictGet(naidict, K_etc)) = {}
        /\ KeysOf(OptionsOf(naidict)) \cap PromptKeys = {}
        /\ KeysOf(DictGet(naidict, K_etc)) \cap PromptKeys = {}

\* C19 witness: a record was made of a nested object with a prompt, a uc, an
\* option key and another key; the option key is in option, the other in etc.
C19_Witness ==
    /\ RecordMade /\ given.kind = "nested"
    /\ {K_prompt, K_uc, K_steps, K_foo} \subseteq KeysOf(given.obj)
    /\ KeysOf(OptionsOf(naidict)) = {K_steps}
    /\ KeysOf(DictGet(naidict, K_etc)) = {K_foo}

\* C20: what _get_naidict_from_exifdict returns is a record whose prompt is
\* a string, or no record; a nested object without a prompt or with a null
\* prompt (and a negative prompt that is a text or a false value) gives a
\* record with the empty string as its prompt; a nested object whose prompt
\* is a true value that is no string gives no record.
C20_PromptIsString ==
    stage = "naidict" =>
        /\ naidict.t # "none" => (IsRecord(naidict) /\ DictGet(naidict, K_prompt).t = "str")
        /\ (/\ given.kind = "nested"
            /\ DictGet(given.obj, K_prompt).t = "none"
            /\ Strippable(NegativeOf(given.obj)))
              => (IsRecord(naidict) /\ DictGet(naidict, K_prompt) = PyStr(<<>>))
        /\ (/\ given.kind = "nested"
            /\ Truthy(DictGet(given.obj, K_prompt))
            /\ DictGet(given.obj, K_prompt).t # "str")
              => naidict = PyNone

\* C20 witness: a nested object with a null prompt and a uc has given a
\* record with the empty string as its prompt.
C20_Witness ==
    /\ RecordMade /\ given.kind = "nested"
    /\ DictHas(given.obj, K_prompt) /\ DictGet(given.obj, K_prompt) = PyNone
    /\ DictGet(given.obj, K_uc) = PyStr(T_bad)
    /\ DictGet(naidict, K_prompt) = PyStr(<<>>)
    /\ DictGet(naidict, K_negative_prompt) = PyStr(T_bad)

----------------------------------------------------------------------------
(* The workflow-graph parser *)

\* _extract_comfyui_prompt has been run on a node graph
GraphParsed == stage = "comfyui" /\ given.kind = "graph"

\* every node is a mapping whose inputs is a mapping or a false value
WellFormedGraph(graph) ==
    \A i \in 1..Len(graph.o) :
        /\ graph.o[i].v.t = "dict"
        /\ (DictGet(graph.o[i].v, K_inputs).t = "dict"
            \/ ~Truthy(DictGet(graph.o[i].v, K_inputs)))

\* the texts of the text-encoder nodes joined by newlines, nothing if there
\* is no such node
JoinedTexts(graph) ==
    IF EncoderTexts(graph) # <<>> THEN PyStr(Join(EncoderTexts(graph), <<10>>)) ELSE PyNone

\* C21 as stated: for every node-graph mapping _extract_comfyui_prompt
\* returns the texts of exactly the nodes whose class_type is
\* 'CLIPTextEncode' and whose inputs.text is a string, joined by newlines in
\* node order, and nothing when there is no such node.
C21_GraphTexts == GraphParsed => comfyui_prompt = JoinedTexts(given.obj)

\* C21 amended: _extract_comfyui_prompt returns a string or nothing and never
\* raises; for a node graph whose nodes are all mappings with a mapping or a
\* false value as inputs it returns the texts of exactly the text-encoder
\* nodes with a string as inputs.text, joined by newlines in node order, and
\* nothing when there is no such node; for a graph with a node that is no
\* mapping it returns nothing, whatever the other nodes hold.
C21_WellFormedGraphTexts ==
    GraphParsed =>
        /\ comfyui_prompt.t \in {"str", "none"}
        /\ WellFormedGraph(given.obj) => comfyui_prompt = JoinedTexts(given.obj)
        /\ (\E i \in 1..Len(given.obj.o) : given.obj.o[i].v.t # "dict")
              => comfyui_prompt = PyNone

\* C21 witness: the graph of the two text encoders 'sunset' and 'ocean',
\* given as a JSON text, has come out as 'sunset\nocean'.
C21_Witness ==
    /\ GraphParsed /\ given.asText
    /\ EncoderTexts(given.obj) = <<T_sunset, T_ocean>>
    /\ comfyui_prompt = PyStr(T_sunset \o <<10>> \o T_ocean)

----------------------------------------------------------------------------
(* The classification task *)

\* the results _process_images_by_keywords has handled
Results == {n \in 1..Len(oplog) : oplog[n].phase = "result"}

\* the file of the result can be read and has a non-empty string as prompt
HasPrompt(e) ==
    /\ e.id # ""
    /\ ImageFile(e.id).readable
    /\ ImageFile(e.id).prompt_data.t = "str"
    /\ ImageFile(e.id).prompt_data.s # <<>>

\* the lower-cased i-th keyword of the batch is a substring of the
\* lower-cased prompt of the file
KeywordMatches(e, i) ==
    Contains(Lower(ImageFile(e.id).prompt_data.s), Lower(e.keywords[i]))

\* C22: for a non-empty prompt and a keyword list, process_single_image_task
\* returns the status success with the first keyword in list order whose
\* lower-cased form is a substring of the lower-cased prompt, and
\* no_keyword_match when no keyword matches or the list is empty.
C22_FirstKeyword ==
    \A n \in Results :
        HasPrompt(oplog[n]) =>
            IF \E i \in 1..Len(oplog[n].keywords) : KeywordMatches(oplog[n], i)
            THEN /\ oplog[n].status = "success"
                 /\ \E i \in 1..Len(oplog[n].keywords) :
                       /\ oplog[n].keyword = oplog[n].keywords[i]
                       /\ KeywordMatches(oplog[n], i)
                       /\ \A k \in 1..(i - 1) : ~KeywordMatches(oplog[n], k)
            ELSE oplog[n].status = "no_keyword_match"

\* C22 witness: the image with the prompt 'Cat dog' was classified with the
\* keywords 'dog', 'cat' and came out under 'dog', the first of the list.
C22_Witness ==
    \E n \in Results :
        /\ oplog[n].id = "A"
        /\ oplog[n].keywords = <<W_dog, W_cat>>
        /\ oplog[n].status = "success"
        /\ oplog[n].keyword = W_dog

\* the results handled in the batch that is being processed
BatchResults == {n \in Results : oplog[n].batch = job.batch}

\* the as_completed loop of the batch has come to its end
ResultsThrough == job.at \in {"others", "return"}

\* the status the task gives the file of a result, whatever else is in the
\* batch
OwnStatus(e) == process_single_image_task(ImageFile(e.id), e.keywords).status

\* C23: an image for which read_info_from_image extracts no prompt gets the
\* status no_prompt, and only such an image gets it; neither that result nor an error result keeps
\* _process_images_by_keywords from handling every other image of the batch:
\* when the loop over the results is through, every image of the batch has
\* its result, with the status of its own file, and every matched one has
\* been passed to _process_image_file.
C23_BatchGoesOn ==
    /\ \A n \in Results :
          (oplog[n].status = "no_prompt") <=> ~Truthy(ImageFile(oplog[n].id).prompt_data)
    /\ ResultsThrough =>
          \A p \in job.image_paths :
              \E n \in BatchResults :
                  /\ oplog[n].path = p
                  /\ oplog[n].status = OwnStatus(oplog[n])
                  /\ oplog[n].status = "success" => oplog[n].did # "none"

\* C23 witness: in a batch of two images the one without a prompt came first
\* and was reported as no_prompt; the other one was then moved to its folder.
C23_Witness ==
    /\ ResultsThrough
    /\ \E n, k \in BatchResults :
          /\ n < k
          /\ oplog[n].status = "no_prompt"
          /\ oplog[k].status = "success" /\ oplog[k].did = "move"
          /\ oplog[k].dest \in DOMAIN disk.files

\* C23 witness for the error result: the image whose task ended with an
\* error came first, and the other one was then moved to its folder.
C23_ErrorWitness ==
    /\ ResultsThrough
    /\ \E n, k \in BatchResults :
          /\ n < k
          /\ oplog[n].status = "error"
          /\ oplog[k].status = "success" /\ oplog[k].did = "move"

----------------------------------------------------------------------------
(* _process_image_file *)

\* the step is a call of _process_image_file, logged as the last entry
FileCall ==
    /\ Len(oplog') = Len(oplog) + 1
    /\ oplog'[Len(oplog')].did # "none"

\* the log entry of the call of the step
Called == oplog'[Len(oplog')]

\* every path that holds a file before the step and after it holds the same
\* file
NothingOverwritten ==
    \A p \in DOMAIN disk.files \cap DOMAIN disk'.files : disk'.files[p] = disk.files[p]

\* the least n for which the name of the path with the suffix ' (NN)' is not
\* there
FirstFreeSuffix(path) ==
    CHOOSE n \in 1..100 :
        /\ ~Exists(disk, Suffixed(path, n))
        /\ \A k \in 1..(n - 1) : Exists(disk, Suffixed(path, k))

\* C24: _process_image_file never moves or copies a file onto a destination
\* path that exists; on a name conflict it skips the file and leaves the
\* file system as it is (resolve_conflicts off), or takes the first name
\* with a ' (NN)' suffix that does not exist (resolve_conflicts on).
C24_NoOverwrite ==
    [][FileCall =>
          /\ NothingOverwritten
          /\ Called.did \in {"move", "copy"} =>
                 /\ ~Exists(disk, Called.dest)
                 /\ Called.dest \in DOMAIN disk'.files
                 /\ disk'.files[Called.dest] = disk.files[Called.path]
          /\ Exists(disk, Called.first) =>
                 IF worker.resolve_conflicts
                 THEN /\ Called.did \in {"move", "copy"}
                      /\ Called.dest = Suffixed(Called.first, FirstFreeSuffix(Called.first))
                 ELSE /\ Called.did = "skip"
                      /\ disk'.files = disk.files
          /\ ~Exists(disk, Called.first) => Called.dest = Called.first]_vars

\* C24 witness: the destination and its ' (01)' name were taken, the file
\* went to the ' (02)' name, and the two files that were there are still
\* there.
C24_Witness ==
    \E n \in 1..Len(oplog) :
        /\ oplog[n].did \in {"move", "copy"}
        /\ oplog[n].dest = Suffixed(oplog[n].first, 2)
        /\ oplog[n].dest \in DOMAIN disk.files
        /\ oplog[n].first \in DOMAIN disk.files
        /\ disk.files[oplog[n].first] = disk0.files[oplog[n].first]
        /\ disk.files[Suffixed(oplog[n].first, 1)] = disk0.files[Suffixed(oplog[n].first, 1)]

\* C24 witness for the skip: the destination was taken, the file was
\* skipped and is still at its path.
C24_SkipWitness ==
    \E n \in 1..Len(oplog) :
        /\ oplog[n].did = "skip"
        /\ oplog[n].first \in DOMAIN disk0.files
        /\ oplog[n].path \in DOMAIN disk.files

----------------------------------------------------------------------------
(* undo_last_operation and the safe mode *)

\* the run was made in move mode
MoveMode == ~worker.safe_mode_enabled /\ ~worker.clone_mode_enabled

\* no file operation of the run failed
AllSucceeded == \A n \in 1..Len(oplog) : oplog[n].did # "fail"

\* C25: after a run in move mode in which every file operation succeeded,
\* undo_last_operation has every file back at its original path, also a file
\* that was moved through several levels, and undo_info, created_dirs and
\* processed_files_info are empty.
C25_UndoRoundTrip ==
    (job.at = "undone" /\ MoveMode /\ AllSucceeded) =>
        /\ disk.files = disk0.files
        /\ worker.undo_info = <<>>
        /\ worker.created_dirs = <<>>
        /\ worker.processed_files_info = <<>>

\* C25 witness: a file was moved by the first level and moved again by the
\* second one, and after the undo it is back where it was.
C25_Witness ==
    /\ job.at = "undone" /\ MoveMode
    /\ \E n, k \in 1..Len(oplog) :
          /\ oplog[n].batch = 1 /\ oplog[n].did = "move"
          /\ oplog[k].batch = 2 /\ oplog[k].did = "move"
          /\ oplog[k].path = oplog[n].dest
          /\ oplog[n].path \in DOMAIN disk.files
          /\ disk.files[oplog[n].path] = oplog[n].id
          /\ oplog[k].dest \notin DOMAIN disk.files
    /\ disk.files = disk0.files

\* every file the worker was constructed on that is at its path before the
\* step is still there after it
OriginalsKept ==
    \A p \in DOMAIN disk0.files :
        (p \in DOMAIN disk.files /\ disk.files[p] = disk0.files[p])
            => (p \in DOMAIN disk'.files /\ disk'.files[p] = disk0.files[p])

\* the paths the step takes a file away from
Removed == DOMAIN disk.files \ DOMAIN disk'.files

\* C26: with safe_mode_enabled the run only copies; no original file is
\* moved or deleted by any step but finalize_safe_mode('delete'), and
\* finalize_safe_mode('undo') removes the copies, only them, and leaves
\* every original in place.
C26_SafeMode ==
    [][worker.safe_mode_enabled =>
          /\ FileCall => (Called.did \in {"copy", "skip"} /\ Removed = {})
          /\ job'.at # "finalized_delete" => OriginalsKept
          /\ job'.at = "finalized_undo" =>
                 /\ Removed \subseteq {worker.processed_files_info[i].dest :
                                          i \in 1..Len(worker.processed_files_info)}
                 /\ Removed \cap DOMAIN disk0.files = {}
                 /\ disk'.files = disk0.files]_vars

\* C26 witness: in safe mode a file was copied by the first level and its
\* copy copied again by the second one; after finalize_safe_mode('undo') the
\* copies are gone and the original is where it was.
C26_Witness ==
    /\ worker.safe_mode_enabled /\ job.at = "finalized_undo"
    /\ \E n, k \in 1..Len(oplog) :
          /\ oplog[n].batch = 1 /\ oplog[n].did = "copy"
          /\ oplog[k].batch = 2 /\ oplog[k].did = "copy" /\ oplog[k].path = oplog[n].dest
          /\ oplog[n].dest \notin DOMAIN disk.files
          /\ oplog[k].dest \notin DOMAIN disk.files
          /\ oplog[n].path \in DOMAIN disk.files
    /\ disk.files = disk0.files

----------------------------------------------------------------------------
(* The signals of run *)

\* run has returned, or ended with an exception
RunOver ==
    job.at \in {"done", "dialog", "raised", "finalized_delete", "finalized_keep",
                "finalized_undo", "undone"}

\* the terminal signals run has emitted
RunSignals == SelectSeq(emitted, LAMBDA g : g.by = "run")

\* C27: every execution of run ends with exactly one terminal signal
\* emitted, completed or safe_mode_dialog_required, never both and never
\* none; safe_mode_dialog_required is emitted only with safe mode enabled
\* and the run not canceled.
C27_OneTerminalSignal ==
    /\ Len(RunSignals) <= 1
    /\ RunOver => Len(RunSignals) = 1
    /\ \A i \in 1..Len(RunSignals) :
          RunSignals[i].signal = "safe_mode_dialog_required"
              => (worker.safe_mode_enabled /\ ~worker.canceled)

\* the part of C27 that holds: never two terminal signals, one whenever run
\* returns, and the dialog signal only with safe mode enabled
C27_AtMostOne ==
    /\ Len(RunSignals) <= 1
    /\ (RunOver /\ job.at # "raised") => Len(RunSignals) = 1
    /\ \A i \in 1..Len(RunSignals) :
          RunSignals[i].signal = "safe_mode_dialog_required" => worker.safe_mode_enabled

\* run has ended with the exception of os.listdir and has emitted nothing
C27_EndedWithoutSignal == job.at = "raised" /\ emitted = <<>>

\* the dialog signal was emitted for a run whose canceled flag was set
\* after the test of line 133
C27_DialogAfterCancel ==
    /\ job.at = "dialog" /\ worker.canceled
    /\ Len(emitted) = 1 /\ emitted[1].signal = "safe_mode_dialog_required"

\* a step of run that is taken with the canceled flag set
StepWhenCanceled == worker.canceled /\ job.at \in Running /\ job' # job

\* C28: once cancel() has set the canceled flag during a run, no file is
\* moved or copied for any result examined after that (the remaining
\* results, the 'other' handling and the later levels are skipped), and the
\* run ends by emitting completed with the count 0, whatever the safe-mode
\* setting.
C28_Cancellation ==
    [][StepWhenCanceled =>
          /\ disk' = disk
          /\ job'.at \notin Running =>
                 emitted' = <<Signal("completed", 0, "run")>>]_vars

\* the part of C28 that holds: with the flag set no step of run changes the
\* file system or handles a result, and a run whose flag is set when line
\* 133 tests it emits completed with the count 0
C28_NoFileAfterCancel ==
    [][StepWhenCanceled =>
          /\ disk' = disk /\ oplog' = oplog
          /\ job.at = "end" => emitted' = <<Signal("completed", 0, "run")>>]_vars

\* the flag was set, os.listdir raised and run emitted nothing
C28_CanceledThenRaised == job.at = "raised" /\ worker.canceled /\ emitted = <<>>

\* the flag was set after the test of line 133 and run emitted completed
\* with the number of the files it had processed
C28_CanceledAfterTest ==
    /\ job.at = "done" /\ worker.canceled
    /\ emitted = <<Signal("completed", Len(worker.processed_files_info), "run")>>
    /\ Len(worker.processed_files_info) > 0

----------------------------------------------------------------------------
(* The levels *)

\* the step submits the batch of a level
LevelSubmitted ==
    /\ ~worker.full_tracking_enabled
    /\ job.at = "level" /\ job'.at = "results"

\* the level whose batch the step submits, and the levels it passes over
SubmittedLevel == job'.level_idx - 1
PassedOver == job.level_idx..(SubmittedLevel - 1)

\* the level is disabled or its prompt is blank
DisabledOrBlank(i) ==
    \/ ~worker.prompt_levels[i].enabled
    \/ Strip(worker.prompt_levels[i].prompt_string) = <<>>

\* the folders into which the batch before placed a keyword-matched file
PlacedDirs ==
    {DirName(oplog[n].dest) :
        n \in {k \in Results : /\ oplog[k].batch = job.batch
                               /\ oplog[k].status = "success"
                               /\ oplog[k].did \in {"move", "copy"}}}

\* the images of the batch submitted lie directly in the folders the level
\* before has placed a keyword-matched file in
ChainedImages ==
    job.batch >= 1 => \A p \in job'.image_paths : DirName(p) \in PlacedDirs

\* the loop ends at a level that finds no image, and after a level that has
\* produced no folder
StopsWhenEmpty ==
    /\ (/\ ~worker.full_tracking_enabled /\ job.at = "level" /\ job' # job
        /\ \A p \in DOMAIN disk.files :
              \/ \A i \in 1..Len(job.current_dirs) : DirName(p) # job.current_dirs[i]
              \/ ~IsImageName(BaseName(p)))
          => job'.at \notin Running \ {"end"}
    /\ (/\ ~worker.full_tracking_enabled /\ job.at = "return" /\ job' # job
        /\ job.next_dirs = <<>>)
          => job'.at = "end"

\* C29 as stated: in level mode each processed level after the first
\* examines only images that lie directly in folders into which the level
\* processed before placed a keyword-matched file; disabled or blank levels
\* are skipped without a change of that folder set, and the processing stops
\* at the first level that finds no image or produces no such folder.
C29_LevelChaining ==
    [][/\ LevelSubmitted =>
             /\ ChainedImages
             /\ ~DisabledOrBlank(SubmittedLevel)
             /\ \A i \in PassedOver : DisabledOrBlank(i)
             /\ job.batch >= 1 => job'.current_dirs = job.current_dirs
       /\ StopsWhenEmpty]_vars

\* C29 amended: the same, except that the first level is processed, with the
\* keywords of its prompt, also when it is disabled or blank if
\* handle_others is on.
C29_LevelChainingButFirst ==
    [][/\ LevelSubmitted =>
             /\ ChainedImages
             /\ (~DisabledOrBlank(SubmittedLevel)
                 \/ (SubmittedLevel = 1 /\ worker.handle_others))
             /\ \A i \in PassedOver :
                    DisabledOrBlank(i) /\ ~(i = 1 /\ worker.handle_others)
             /\ job'.current_dirs = job.current_dirs
             /\ job'.keywords
                    = KeywordsOf(worker.prompt_levels[SubmittedLevel].prompt_string)
       /\ StopsWhenEmpty]_vars

\* C29 witness: the first level placed a file in the folder of its keyword,
\* the blank second level was passed over, and the third level has moved
\* that file on from that folder.
C29_Witness ==
    /\ ~worker.full_tracking_enabled
    /\ Len(worker.prompt_levels) = 3
    /\ job.batch = 2 /\ job.level_idx = 4
    /\ \E n, k \in Results :
          /\ oplog[n].batch = 1 /\ oplog[n].did = "move"
          /\ oplog[k].batch = 2 /\ oplog[k].did = "move"
          /\ oplog[k].path = oplog[n].dest

\* the first level is disabled and handle_others is on: its batch was
\* processed and a file was classified by its keyword
C29_DisabledFirstProcessed ==
    /\ ~worker.full_tracking_enabled
    /\ ~worker.prompt_levels[1].enabled
    /\ \E n \in Results :
          oplog[n].batch = 1 /\ oplog[n].status = "success" /\ oplog[n].did = "move"
----------------------------------------------------------------------------
(* Claim about src/settings_manager.py, checked under SpecSettings.         *)

\* the dict of _get_default_settings as the constructor made it
FactoryDefaults == DefaultSettingsWith(FactoryLevels)

\* dicts without a valid prompt_levels entry: none, or one that is no list
WithoutLevels ==
    {PyDict(<<>>), PyDict(<<Entry(K_handle_others, PyBool(TRUE))>>),
     PyDict(<<Entry(K_prompt_levels, PyStr(W_cat))>>)}

\* default_settings has the value the constructor gave it
DefaultsUntouched == Deref(heap, manager.default_settings) = FactoryDefaults

\* _validate_settings of a dict without a valid prompt_levels entry returns
\* the levels of the factory defaults
FactoryLevelsReturned ==
    \A settings \in WithoutLevels :
       DictGet(Deref(HeapAfterValidate(heap, manager.default_settings, settings),
                     ValidatedDict(manager.default_settings, settings)),
               K_prompt_levels) = FactoryLevels

\* the dict the last validation returned has, after the step, the value it
\* had when it was returned
ReturnedUnchanged ==
    \A i \in 1..Len(returned) : Deref(heap', returned[i].dict) = returned[i].seen

\* C30: default_settings is never modified: after any calls of
\* load_settings, save_settings, save_preset and load_preset, the validation
\* of a dict without a valid prompt_levels entry returns the levels of the
\* factory defaults (level 1 enabled, levels 2-5 disabled, all prompts
\* empty), and a dict returned by one validation is not changed by a later
\* validation.
C30_DefaultsUntouched ==
    [][/\ DefaultsUntouched' /\ FactoryLevelsReturned' /\ ReturnedUnchanged]_vars
=============================================================================
